---- MODULE Spec2Model ----
(***************************************************************************)
(* State-machine model of the two playback hooks of the 8-bitbox front     *)
(* end: useSPCPlayer (SPC700 engine behind a ScriptProcessor node, with    *)
(* setTimeout/setInterval fade and auto-advance timers) and useM4APlayer   *)
(* (plain HTML5 Audio element).                                            *)
(*                                                                         *)
(* Every handler is one action: the handler body, the React re-render it   *)
(* causes and the effects of that render.  Time is in milliseconds and     *)
(* advances from one timer deadline to the next.  JavaScript indices are   *)
(* kept 0-based; sequences are 1-based, so list[i] is written list[i+1].   *)
(***************************************************************************)
EXTENDS Integers, Sequences, FiniteSets, TLC

\* ---------------------------------------------------------------- bounds
\* entries of the larger catalogue
MaxTracks == 2
\* pending setTimeout/setInterval callbacks
MaxTimers == 3
\* loadZip calls in flight
MaxLoads == 2
\* native allocations counted
MaxAllocs == 3
\* game selections of App whose load or deferred play is outstanding
MaxPending == 2

\* ------------------------------------------------------ program constants
DefaultDuration == 180
DefaultFade     == 10000
FadeSteps       == 20
GuardMs         == 500
NextDelayMs     == 100
MsPerSecond     == 1000
UiIntervalMs    == 250
\* the readiness poll: setInterval(.., 200), cleared after 15000 ms
PollMs == 200
PollTimeoutMs == 15000
\* Player: volume = 0.8 and the ratio 1 of the volume bar, in tenths
DefaultVolume == 8
FullVolume == 10
AllocsPerPlay   == 2

Min(a, b) == IF a < b THEN a ELSE b
Max(a, b) == IF a > b THEN a ELSE b

\* ------------------------------------------------------------ catalogues
\* The archives (useSPCPlayer) and games (useM4APlayer) the model loads: "A"
\* holds MaxTracks entries, "B" one.  An SPC entry carries the values
\* parseSPCID666 reads from it; a duration or fade of 0 is a field that is
\* zero or not numeric.
Archives == {"A", "B"}

EntryNames ==
  [A |-> <<"A1", "A2", "A3", "A4", "A5">>,
   B |-> <<"B1", "B2", "B3", "B4", "B5">>]

ArchiveLen(a) == IF a = "A" THEN MaxTracks ELSE 1

SpcInfo(a, i) ==
  [path |-> EntryNames[a][i], duration |-> 1 + ((i - 1) % 2), fade |-> 2000]

NullTrack == [path |-> "", duration |-> 0, fade |-> 0, length |-> 0]

\* loadZip, the body of the loop over the archive's entries: the fallbacks
\* for duration and fade and the catalogue length.
CeilDiv(a, b) == (a + b - 1) \div b

LoadTrack(info) ==
  LET duration == IF info.duration # 0 THEN info.duration ELSE DefaultDuration
      fade     == IF info.fade # 0 THEN info.fade ELSE DefaultFade
  IN  [path     |-> info.path,
       duration |-> duration,
       fade     |-> fade,
       length   |-> duration + CeilDiv(fade, MsPerSecond)]

ArchiveTracks(a) == [i \in 1..ArchiveLen(a) |-> LoadTrack(SpcInfo(a, i))]

\* play: const duration = track.duration || 180, const fade = track.fade || 10000
PlayDuration(track) == IF track.duration # 0 THEN track.duration ELSE DefaultDuration
PlayFade(track)     == IF track.fade # 0 THEN track.fade ELSE DefaultFade
\* a fade delay that leaves the duration in seconds
FadeStartInSeconds(track) == PlayDuration(track)

FadeStartMs(track)  == PlayDuration(track) * MsPerSecond
EndDelayMs(track)   == FadeStartMs(track) + PlayFade(track) + GuardMs

\* now - uiStartRef is only compared with the length of the current track:
\* it is kept up to AgeCap, past the length of every track; -1 stands for a
\* null ref.
LongestTrack ==
  LET ls == {LoadTrack(SpcInfo(a, i)).length : a \in Archives, i \in 1..MaxTracks}
  IN  CHOOSE l \in ls : \A m \in ls : m <= l

AgeCap == (LongestTrack + 1) * MsPerSecond

\* loadGame: the manifest's tracks of a game, each with its duration in
\* seconds
GameTracks(g) ==
  [i \in 1..ArchiveLen(g) |->
     [path |-> EntryNames[g][i], duration |-> i, fade |-> 0, length |-> i]]

\* ------------------------------------------------ byte buffers and strings
\* A buffer is a sequence of bytes; a string is the sequence of its character
\* codes. All the bytes drawn are below 128, where TextDecoder('ascii') and
\* String.fromCharCode leave the code of a byte as it is.
Zeros(n) == [i \in 1..n |-> 0]

Pad(str, n) == str \o Zeros(n - Len(str))

\* Uint8Array.prototype.slice(from, to): 0-based, to exclusive, clamped
Slice(b, from, to) == SubSeq(b, from + 1, Min(to, Len(b)))

\* Uint8Array.prototype.indexOf(0): 0-based, -1 when absent
IndexOfNul(b) ==
  LET at == {i \in 1..Len(b) : b[i] = 0}
  IN  IF at = {} THEN -1 ELSE (CHOOSE i \in at : \A j \in at : i <= j) - 1

IsSpace(c) == c \in {9, 10, 11, 12, 13, 32}
IsDigit(c) == c >= 48 /\ c <= 57

\* String.prototype.trim
Trim(str) ==
  LET ink == {i \in 1..Len(str) : ~IsSpace(str[i])}
  IN  IF ink = {} THEN <<>>
      ELSE SubSeq(str, CHOOSE i \in ink : \A j \in ink : i <= j,
                       CHOOSE i \in ink : \A j \in ink : i >= j)

\* parseInt(str, 10): leading blanks, an optional sign, then the longest run
\* of digits; NaN when that run is empty.
RECURSIVE DigitRun(_, _, _)
DigitRun(str, i, acc) ==
  IF i > Len(str) \/ ~IsDigit(str[i]) THEN acc
  ELSE DigitRun(str, i + 1, 10 * acc + (str[i] - 48))

ParseInt(str) ==
  LET t      == Trim(str)
      signed == Len(t) > 0 /\ t[1] \in {43, 45}
      first  == IF signed THEN 2 ELSE 1
  IN  IF first > Len(t) \/ ~IsDigit(t[first]) THEN [nan |-> TRUE, val |-> 0]
      ELSE [nan |-> FALSE,
            val |-> IF signed /\ t[1] = 45 THEN 0 - DigitRun(t, first, 0)
                    ELSE DigitRun(t, first, 0)]

\* parseInt(..) || 0
OrZero(n) == IF n.nan THEN 0 ELSE n.val

\* --------------------------------------------------------- SPC ID666 tags
\* "SNES-SPC700", the prefix of the signature the manifest generator tests
SpcMagic == <<83, 78, 69, 83, 45, 83, 80, 67, 55, 48, 48>>

SignatureLen == 33
TitleOffset == 46
GameOffset == 78
DurationOffset == 169
FadeOffset == 172
ArtistOffset == 177
TextLen == 32
DurationLen == 3
FadeLen == 5

NullInfo == [null |-> TRUE]

\* readString of both parsers: the bytes up to the first NUL, decoded, trimmed
ReadString(buffer, offset, len) ==
  LET bytes == Slice(buffer, offset, offset + len)
      end   == IndexOfNul(bytes)
  IN  Trim(IF end >= 0 THEN Slice(bytes, 0, end) ELSE bytes)

\* the fields both parsers read
Id666(buffer) ==
  [null     |-> FALSE,
   title    |-> ReadString(buffer, TitleOffset, TextLen),
   game     |-> ReadString(buffer, GameOffset, TextLen),
   artist   |-> ReadString(buffer, ArtistOffset, TextLen),
   duration |-> OrZero(ParseInt(ReadString(buffer, DurationOffset, DurationLen))),
   fade     |-> OrZero(ParseInt(ReadString(buffer, FadeOffset, FadeLen)))]

\* magic.startsWith('SNES-SPC700')
StartsWithMagic(buffer) ==
  LET magic == Slice(buffer, 0, SignatureLen)
  IN  Len(magic) >= Len(SpcMagic) /\ SubSeq(magic, 1, Len(SpcMagic)) = SpcMagic

\* generate-manifest.js, parseSPCID666
parseSPCID666(buffer) ==
  IF ~StartsWithMagic(buffer) THEN NullInfo ELSE Id666(buffer)

\* useSPCPlayer, parseSPCID666: the fields are read without a look at the
\* signature
hookParseSPCID666(buffer) == Id666(buffer)

\* loadZip, one .spc entry: spcInfo?.duration || 180, spcInfo?.fade || 10000
LoadEntry(path, buffer) ==
  LET spcInfo == hookParseSPCID666(buffer)
  IN  LoadTrack([path     |-> path,
                 duration |-> IF spcInfo.null THEN 0 ELSE spcInfo.duration,
                 fade     |-> IF spcInfo.null THEN 0 ELSE spcInfo.fade])

\* The SPC buffers drawn: a signature, the text fields, every content of the
\* duration field over FieldBytes and some contents of the fade field; and
\* truncations of one of them.
FullSignature == Pad(SpcMagic, SignatureLen)
Signatures == {FullSignature, Pad(<<86, 103, 109, 32>>, SignatureLen),
               Zeros(SignatureLen)}

FieldBytes == {0, 32, 45, 49, 120}
DurationFields == [1..DurationLen -> FieldBytes]
FadeFields == {Zeros(FadeLen), <<50, 48, 48, 48, 0>>, <<45, 57, 57, 57, 57>>,
               <<45, 49, 0, 0, 0>>, <<120, 49, 0, 0, 0>>}
TagTitles == {<<>>, <<84>>}
TagGames == {<<>>, <<71>>}

SpcBuffer(sig, title, game, dur, fd) ==
  Pad(sig, TitleOffset) \o Pad(title, TextLen) \o Pad(game, TextLen)
    \o Zeros(DurationOffset - (GameOffset + TextLen)) \o dur \o fd
    \o Pad(<<82>>, TextLen)

TruncatedAt == {0, Len(SpcMagic), GameOffset}

SpcBuffers(signatures) ==
  {SpcBuffer(sig, t, g, d, f) :
     sig \in signatures, t \in TagTitles, g \in TagGames,
     d \in DurationFields, f \in FadeFields}
  \cup {SubSeq(SpcBuffer(FullSignature, <<84>>, <<71>>, <<49, 0, 0>>,
                         Zeros(FadeLen)), 1, n) : n \in TruncatedAt}

\* ------------------------------------------------------- VGM GD3 tags
\* "Vgm " and "Gd3 "
VgmMagic == <<86, 103, 109, 32>>
Gd3Magic == <<71, 100, 51, 32>>

Gd3OffsetAt == 20
Gd3HeaderLen == 12
Gd3Strings == 11

\* a 16-bit read with the bytes in the other order
U16BigEndian(b, pos) == 256 * b[pos + 1] + b[pos + 2]

\* DataView reads, little endian; the caller has checked the range
U16(b, pos) == b[pos + 1] + 256 * b[pos + 2]
U32(b, pos) ==
  b[pos + 1] + 256 * b[pos + 2] + 65536 * b[pos + 3] + 16777216 * b[pos + 4]

\* the inner loop: one string, up to its terminator or the end of the buffer
RECURSIVE ReadGd3String(_, _, _)
ReadGd3String(b, pos, str) ==
  IF ~(pos < Len(b) - 1) THEN [str |-> str, pos |-> pos]
  ELSE LET char == U16(b, pos)
       IN  IF char = 0 THEN [str |-> str, pos |-> pos + 2]
           ELSE ReadGd3String(b, pos + 2, Append(str, char))

\* the outer loop: at most 11 strings
RECURSIVE ReadGd3Strings(_, _, _, _)
ReadGd3Strings(b, pos, i, strings) ==
  IF i < Gd3Strings /\ pos < Len(b) - 1
  THEN LET r == ReadGd3String(b, pos, <<>>)
       IN  ReadGd3Strings(b, r.pos, i + 1, Append(strings, r.str))
  ELSE strings

\* strings[k] || ''
StringOrEmpty(strings, k) == IF k < Len(strings) THEN strings[k + 1] ELSE <<>>

Gd3Info(strings) ==
  [null         |-> FALSE,
   trackNameEn  |-> StringOrEmpty(strings, 0),
   trackNameJp  |-> StringOrEmpty(strings, 1),
   gameNameEn   |-> StringOrEmpty(strings, 2),
   gameNameJp   |-> StringOrEmpty(strings, 3),
   systemNameEn |-> StringOrEmpty(strings, 4),
   systemNameJp |-> StringOrEmpty(strings, 5),
   authorNameEn |-> StringOrEmpty(strings, 6),
   authorNameJp |-> StringOrEmpty(strings, 7),
   releaseDate  |-> StringOrEmpty(strings, 8),
   vgmCreator   |-> StringOrEmpty(strings, 9),
   notes        |-> StringOrEmpty(strings, 10)]

\* parseVGMTitle. A DataView read past the end of the buffer throws a
\* RangeError, which the catch turns into null.
parseVGMTitle(b) ==
  IF Len(b) < 4 THEN NullInfo
  ELSE IF SubSeq(b, 1, 4) # VgmMagic THEN NullInfo
  ELSE IF Len(b) < Gd3OffsetAt + 4 THEN NullInfo
  ELSE LET gd3Offset == U32(b, Gd3OffsetAt)
           gd3Pos    == Gd3OffsetAt + gd3Offset
       IN  IF gd3Offset = 0 THEN NullInfo
           ELSE IF Len(b) < gd3Pos + 4 THEN NullInfo
           ELSE IF SubSeq(b, gd3Pos + 1, gd3Pos + 4) # Gd3Magic THEN NullInfo
           ELSE Gd3Info(ReadGd3Strings(b, gd3Pos + Gd3HeaderLen, 0, <<>>))

\* The VGM buffers drawn. A well-formed one is a header whose GD3 offset
\* points right behind it, the GD3 header and up to MaxUnits 16-bit units,
\* each a terminator or the character U+3041; the others have a wrong
\* magic, a GD3 offset of 0 or past the end, a gap before the block, a wrong
\* GD3 magic, an odd byte at the end, or are cut short.
\* the most 16-bit units in a GD3 block
MaxUnits == 13

Gd3Chars == {0, 12353}

RECURSIVE UnitBytes(_)
UnitBytes(units) ==
  IF units = <<>> THEN <<>>
  ELSE <<Head(units) % 256, Head(units) \div 256>> \o UnitBytes(Tail(units))

VgmHeader(magic, gd3Offset) ==
  Pad(magic, Gd3OffsetAt) \o <<gd3Offset % 256, gd3Offset \div 256, 0, 0>>

VgmBuffer(magic, gd3Offset, gap, gd3Magic, units) ==
  VgmHeader(magic, gd3Offset) \o Zeros(gap) \o Pad(gd3Magic, Gd3HeaderLen)
    \o UnitBytes(units)

UnitSeqs(chars) == UNION {[1..n -> chars] : n \in 0..MaxUnits}

SomeUnits == {<<>>, <<12353, 0, 12353, 12353, 0>>, <<0, 0, 12353>>}

VgmBuffers(chars) ==
  {VgmBuffer(VgmMagic, 4, 0, Gd3Magic, u) : u \in UnitSeqs(chars)}
  \cup {VgmBuffer(m, o, g, gm, u) \o odd :
          m \in {VgmMagic, Gd3Magic}, o \in {0, 4, 8, 1000}, g \in {0, 4},
          gm \in {Gd3Magic, VgmMagic}, u \in SomeUnits, odd \in {<<>>, <<65>>}}
  \cup {SubSeq(VgmBuffer(VgmMagic, 4, 0, Gd3Magic, <<12353, 0>>), 1, n) :
          n \in {0, 3, 4, 22, 24, 26, 36}}

\* ------------------------------------------------------ archive entries
\* File names are strings of character codes: a one-digit stem and an
\* extension. All of them are ASCII, so processZipFile leaves them as they
\* are.
ExtVgm == <<46, 118, 103, 109>>
ExtVgz == <<46, 118, 103, 122>>
ExtSpc == <<46, 115, 112, 99>>
ExtSpcUpper == <<46, 83, 80, 67>>
ExtPng == <<46, 112, 110, 103>>
ExtJpg == <<46, 106, 112, 103>>
ExtJpgUpper == <<46, 74, 80, 71>>
ExtJpeg == <<46, 106, 112, 101, 103>>
ExtTxt == <<46, 116, 120, 116>>

\* a name compared as it is written
KeepCase(str) == str

\* String.prototype.toLowerCase
Lower(str) ==
  [i \in 1..Len(str) |-> IF str[i] >= 65 /\ str[i] <= 90 THEN str[i] + 32
                         ELSE str[i]]

\* String.prototype.endsWith
EndsWith(str, suffix) ==
  /\ Len(str) >= Len(suffix)
  /\ SubSeq(str, Len(str) - Len(suffix) + 1, Len(str)) = suffix

\* path.basename(filename, path.extname(filename)): up to the last dot
Stem(name) ==
  LET dots == {i \in 1..Len(name) : name[i] = 46}
  IN  IF dots = {} THEN name
      ELSE SubSeq(name, 1, (CHOOSE i \in dots : \A j \in dots : i >= j) - 1)

IsImageName(lowerName) ==
  EndsWith(lowerName, ExtPng) \/ EndsWith(lowerName, ExtJpg)
    \/ EndsWith(lowerName, ExtJpeg)

\* a || b on strings
OrElse(a, b) == IF a # <<>> THEN a ELSE b

\* the strings of a GD3 block, each with its terminator
RECURSIVE Gd3Block(_)
Gd3Block(strings) ==
  IF strings = <<>> THEN <<>>
  ELSE Head(strings) \o <<0>> \o Gd3Block(Tail(strings))

\* The payloads the entries hold, by key:
\*   V1  a VGM file with a GD3 block: track T, game G, system Y, author A
\*   V2  one with Japanese names only: track t, game H, system Z, author B
\*   V0  one whose GD3 block has 11 empty strings
\*   VN  one without a GD3 block
\*   Z1  a gzip stream that inflates to V2;  ZBAD  one that does not inflate
\*   S1  an SPC file with title T, game G, artist R;  S0  one with no game
\*   SN  a file without the SPC signature
\*   IMG, TXT  an image, a text
Raw(key) ==
  CASE key = "V1" ->
         VgmBuffer(VgmMagic, 4, 0, Gd3Magic,
                   Gd3Block(<<<<84>>, <<>>, <<71>>, <<>>, <<89>>, <<>>, <<65>>>>))
    [] key = "V2" ->
         VgmBuffer(VgmMagic, 4, 0, Gd3Magic,
                   Gd3Block(<<<<>>, <<116>>, <<>>, <<72>>, <<>>, <<90>>, <<>>,
                              <<66>>>>))
    [] key = "V0" -> VgmBuffer(VgmMagic, 4, 0, Gd3Magic, Zeros(Gd3Strings))
    [] key = "VN" -> VgmHeader(VgmMagic, 0)
    [] key = "Z1" -> <<31, 139, 8, 1>>
    [] key = "ZBAD" -> <<31, 139, 8, 0>>
    [] key = "S1" -> SpcBuffer(FullSignature, <<84>>, <<71>>, <<49, 0, 0>>,
                               Zeros(FadeLen))
    [] key = "S0" -> SpcBuffer(FullSignature, <<84>>, <<>>, <<120, 0, 0>>,
                               <<50, 48, 48, 48, 0>>)
    [] key = "SN" -> SpcBuffer(Zeros(SignatureLen), <<>>, <<>>, Zeros(DurationLen),
                               Zeros(FadeLen))
    [] key = "IMG" -> <<137, 80, 78, 71>>
    [] OTHER -> <<104, 105>>

\* pako.inflate: the inflated bytes, or a throw
Inflate(key) ==
  IF key = "Z1" THEN [ok |-> TRUE, buffer |-> Raw("V2")]
  ELSE [ok |-> FALSE, buffer |-> <<>>]

\* An entry of an archive: its name, whether it is a directory, whether its
\* extraction from the archive throws, and the key of its payload.
EntryKinds ==
  {[ext |-> ExtVgm, dir |-> FALSE, corrupt |-> FALSE, data |-> "V1"],
   [ext |-> ExtVgm, dir |-> FALSE, corrupt |-> FALSE, data |-> "V0"],
   [ext |-> ExtVgm, dir |-> FALSE, corrupt |-> FALSE, data |-> "VN"],
   [ext |-> ExtVgm, dir |-> FALSE, corrupt |-> FALSE, data |-> "Z1"],
   [ext |-> ExtVgm, dir |-> FALSE, corrupt |-> TRUE, data |-> "V1"],
   [ext |-> ExtVgz, dir |-> FALSE, corrupt |-> FALSE, data |-> "Z1"],
   [ext |-> ExtVgz, dir |-> FALSE, corrupt |-> FALSE, data |-> "ZBAD"],
   [ext |-> ExtSpc, dir |-> FALSE, corrupt |-> FALSE, data |-> "S1"],
   [ext |-> ExtSpcUpper, dir |-> FALSE, corrupt |-> FALSE, data |-> "S0"],
   [ext |-> ExtSpc, dir |-> FALSE, corrupt |-> FALSE, data |-> "SN"],
   [ext |-> ExtPng, dir |-> FALSE, corrupt |-> FALSE, data |-> "IMG"],
   [ext |-> ExtJpgUpper, dir |-> FALSE, corrupt |-> FALSE, data |-> "IMG"],
   [ext |-> ExtTxt, dir |-> FALSE, corrupt |-> FALSE, data |-> "TXT"],
   [ext |-> <<47>>, dir |-> TRUE, corrupt |-> FALSE, data |-> "TXT"]}

\* the most entries in an archive
MaxEntries == 3

\* the i-th entry has the digit i for its stem
ZipArchives(entryKinds) ==
  UNION {{[i \in 1..n |-> [name    |-> <<48 + i>> \o kinds[i].ext,
                           dir     |-> kinds[i].dir,
                           corrupt |-> kinds[i].corrupt,
                           data    |-> kinds[i].data]] :
            kinds \in [1..n -> entryKinds]} : n \in 0..MaxEntries}

\* what processZipFile and processSPCZipFile hold before the loop
NoEntries ==
  [threw |-> FALSE, tracks |-> <<>>, gameInfo |-> NullInfo, coverImage |-> <<>>]

\* the first two bytes are those of a gzip stream
GzipBytes(b) == Len(b) >= 2 /\ b[1] = 31 /\ b[2] = 139

\* processZipFile, the part of the loop body for a .vgm / .vgz entry whose
\* buffer has been read and, if need be, inflated
VgmTrack(acc, file, vgmBuffer) ==
  LET vgmInfo == parseVGMTitle(vgmBuffer)
      track ==
        [filename |-> file.name,
         name     |-> IF vgmInfo.null THEN Stem(file.name)
                      ELSE OrElse(vgmInfo.trackNameEn,
                                  OrElse(vgmInfo.trackNameJp, Stem(file.name))),
         nameJp   |-> IF vgmInfo.null THEN <<>> ELSE vgmInfo.trackNameJp]
      gameInfo ==
        IF acc.gameInfo.null /\ ~vgmInfo.null
        THEN [null    |-> FALSE,
              title   |-> OrElse(vgmInfo.gameNameEn, vgmInfo.gameNameJp),
              titleJp |-> vgmInfo.gameNameJp,
              system  |-> OrElse(vgmInfo.systemNameEn, vgmInfo.systemNameJp),
              author  |-> OrElse(vgmInfo.authorNameEn, vgmInfo.authorNameJp)]
        ELSE acc.gameInfo
  IN  [acc EXCEPT !.tracks = Append(@, track), !.gameInfo = gameInfo]

\* both readers: an image entry becomes the cover image
TakeCover(acc, file) ==
  IF IsImageName(Lower(file.name)) THEN [acc EXCEPT !.coverImage = file.name]
  ELSE acc

\* a reader that gives up at an entry that does not inflate
AbortOnInflate(acc, file) == [acc EXCEPT !.threw = TRUE]

\* processZipFile, catch of pako.inflate: the entry is skipped
SkipOnInflate(acc, file) == acc

\* processZipFile, the loop over Object.entries(zip.files)
RECURSIVE processZipFileFrom(_, _, _)
processZipFileFrom(files, i, acc) ==
  IF i > Len(files) \/ acc.threw THEN acc
  ELSE
    LET file      == files[i]
        lowerName == Lower(file.name)
        acc1      == TakeCover(acc, file)
        gzip      == EndsWith(lowerName, ExtVgz) \/ GzipBytes(Raw(file.data))
    IN  IF file.dir THEN processZipFileFrom(files, i + 1, acc)
        ELSE IF ~(EndsWith(lowerName, ExtVgm) \/ EndsWith(lowerName, ExtVgz))
        THEN processZipFileFrom(files, i + 1, acc1)
        ELSE IF file.corrupt THEN [acc1 EXCEPT !.threw = TRUE]
        ELSE IF gzip /\ ~Inflate(file.data).ok
        THEN processZipFileFrom(files, i + 1, SkipOnInflate(acc1, file))
        ELSE processZipFileFrom(files, i + 1,
               VgmTrack(acc1, file,
                        IF gzip THEN Inflate(file.data).buffer
                        ELSE Raw(file.data)))

processZipFile(files) == processZipFileFrom(files, 1, NoEntries)

SuperNintendo == <<83, 78, 69, 83>>
Unknown == <<85, 110, 107>>

\* processSPCZipFile, the loop body for a .spc entry
SpcTrack(acc, file) ==
  LET spcInfo == parseSPCID666(Raw(file.data))
      track ==
        [filename |-> file.name,
         name     |-> IF spcInfo.null THEN Stem(file.name)
                      ELSE OrElse(spcInfo.title, Stem(file.name)),
         duration |-> IF spcInfo.null THEN 0 ELSE spcInfo.duration,
         fade     |-> IF spcInfo.null \/ spcInfo.fade = 0 THEN DefaultFade
                      ELSE spcInfo.fade]
      gameInfo ==
        IF acc.gameInfo.null /\ ~spcInfo.null /\ spcInfo.game # <<>>
        THEN [null    |-> FALSE,
              title   |-> spcInfo.game,
              titleJp |-> <<>>,
              system  |-> SuperNintendo,
              author  |-> spcInfo.artist]
        ELSE acc.gameInfo
  IN  [acc EXCEPT !.tracks = Append(@, track), !.gameInfo = gameInfo]

RECURSIVE processSPCZipFileFrom(_, _, _)
processSPCZipFileFrom(files, i, acc) ==
  IF i > Len(files) \/ acc.threw THEN acc
  ELSE
    LET file      == files[i]
        lowerName == Lower(file.name)
        acc1      == TakeCover(acc, file)
    IN  IF file.dir THEN processSPCZipFileFrom(files, i + 1, acc)
        ELSE IF ~EndsWith(lowerName, ExtSpc)
        THEN processSPCZipFileFrom(files, i + 1, acc1)
        ELSE IF file.corrupt THEN [acc1 EXCEPT !.threw = TRUE]
        ELSE processSPCZipFileFrom(files, i + 1, SpcTrack(acc1, file))

processSPCZipFile(files) == processSPCZipFileFrom(files, 1, NoEntries)

\* main, the body of a loop over the archives: the game pushed to
\* manifest.games, or nothing when the reader threw
Game(format, read, zipStem, defaultSystem) ==
  IF read.threw THEN <<>>
  ELSE <<[format     |-> format,
          title      |-> IF read.gameInfo.null THEN zipStem
                         ELSE OrElse(read.gameInfo.title, zipStem),
          system     |-> IF read.gameInfo.null THEN defaultSystem
                         ELSE OrElse(read.gameInfo.system, defaultSystem),
          author     |-> IF read.gameInfo.null THEN <<>>
                         ELSE read.gameInfo.author,
          coverImage |-> read.coverImage,
          trackCount |-> Len(read.tracks),
          tracks     |-> read.tracks]>>

\* the stem of the archive's own file name
ZipStem == <<122>>

\* useSPCPlayer.loadZip, the loop over mz.list(); extract of a damaged entry
\* throws and the catch returns no track
RECURSIVE loadZipFrom(_, _, _)
loadZipFrom(files, i, tracks) ==
  IF i > Len(files) THEN tracks
  ELSE IF ~EndsWith(Lower(files[i].name), ExtSpc)
  THEN loadZipFrom(files, i + 1, tracks)
  ELSE IF files[i].corrupt THEN <<>>
  ELSE loadZipFrom(files, i + 1,
                   Append(tracks, LoadEntry(files[i].name, Raw(files[i].data))))

\* ------------------------------------------------------ App: the URL
\* window.location as its search and hash strings. null and '' are the
\* same <<>> here: the code only tests these strings for truthiness.
NoLocation == [search |-> <<>>, hash |-> <<>>]

ParamGame == <<103, 97, 109, 101>>
ParamTrack == <<116, 114, 97, 99, 107>>

IsAlnum(c) ==
  \/ c >= 48 /\ c <= 57
  \/ c >= 65 /\ c <= 90
  \/ c >= 97 /\ c <= 122

HexDigit(n) == IF n < 10 THEN 48 + n ELSE 55 + n

HexValue(c) ==
  IF c >= 48 /\ c <= 57 THEN c - 48
  ELSE IF c >= 65 /\ c <= 70 THEN c - 55
  ELSE IF c >= 97 /\ c <= 102 THEN c - 87
  ELSE -1

\* URLSearchParams.prototype.toString, one character of a name or value
FormEncodeChar(c) ==
  IF c = 32 THEN <<43>>
  ELSE IF IsAlnum(c) \/ c \in {42, 45, 46, 95} THEN <<c>>
  ELSE <<37, HexDigit(c \div 16), HexDigit(c % 16)>>

RECURSIVE FormEncode(_)
FormEncode(str) ==
  IF str = <<>> THEN <<>> ELSE FormEncodeChar(Head(str)) \o FormEncode(Tail(str))

\* new URLSearchParams(search), a name or value: '+' is a space, %XX a byte
RECURSIVE FormDecode(_)
FormDecode(str) ==
  IF str = <<>> THEN <<>>
  ELSE IF str[1] = 43 THEN <<32>> \o FormDecode(Tail(str))
  ELSE IF /\ str[1] = 37 /\ Len(str) >= 3
          /\ HexValue(str[2]) >= 0 /\ HexValue(str[3]) >= 0
  THEN <<16 * HexValue(str[2]) + HexValue(str[3])>>
         \o FormDecode(SubSeq(str, 4, Len(str)))
  ELSE <<str[1]>> \o FormDecode(Tail(str))

\* decodeURIComponent, on the well-formed strings drawn here
RECURSIVE DecodeURIComponent(_)
DecodeURIComponent(str) ==
  IF str = <<>> THEN <<>>
  ELSE IF /\ str[1] = 37 /\ Len(str) >= 3
          /\ HexValue(str[2]) >= 0 /\ HexValue(str[3]) >= 0
  THEN <<16 * HexValue(str[2]) + HexValue(str[3])>>
         \o DecodeURIComponent(SubSeq(str, 4, Len(str)))
  ELSE <<str[1]>> \o DecodeURIComponent(Tail(str))

\* String.prototype.indexOf(c): 0-based, -1 when absent
IndexOfChar(str, c) ==
  LET at == {i \in 1..Len(str) : str[i] = c}
  IN  IF at = {} THEN -1 ELSE (CHOOSE i \in at : \A j \in at : i <= j) - 1

\* the pieces of str between the separators
RECURSIVE Split(_, _)
Split(str, sep) ==
  LET at == IndexOfChar(str, sep)
  IN  IF at = -1 THEN <<str>>
      ELSE <<SubSeq(str, 1, at)>> \o Split(SubSeq(str, at + 2, Len(str)), sep)

\* URLSearchParams.prototype.get: the value of the first pair named key
RECURSIVE GetParam(_, _)
GetParam(pairs, key) ==
  IF pairs = <<>> THEN <<>>
  ELSE LET pair == Head(pairs)
           eq   == IndexOfChar(pair, 61)
           name == IF eq = -1 THEN pair ELSE SubSeq(pair, 1, eq)
           val  == IF eq = -1 THEN <<>> ELSE SubSeq(pair, eq + 2, Len(pair))
       IN  IF pair # <<>> /\ FormDecode(name) = key THEN FormDecode(val)
           ELSE GetParam(Tail(pairs), key)

SearchParam(search, key) ==
  GetParam(Split(IF search # <<>> /\ search[1] = 63 THEN Tail(search)
                 ELSE search, 38), key)

parseUrlParams(loc) ==
  LET gameId == SearchParam(loc.search, ParamGame)
      hash   == IF loc.hash = <<>> THEN <<>> ELSE Tail(loc.hash)
      slashIndex == IndexOfChar(hash, 47)
  IN  IF gameId # <<>>
      THEN [null |-> FALSE, gameId |-> gameId,
            trackName |-> SearchParam(loc.search, ParamTrack)]
      ELSE IF hash = <<>> THEN NullInfo
      ELSE IF slashIndex = -1
      THEN [null |-> FALSE, gameId |-> DecodeURIComponent(hash),
            trackName |-> <<>>]
      ELSE [null |-> FALSE,
            gameId |-> DecodeURIComponent(SubSeq(hash, 1, slashIndex)),
            trackName |-> DecodeURIComponent(SubSeq(hash, slashIndex + 2,
                                                    Len(hash)))]

\* history.replaceState with a bare query, or with the bare path, drops the
\* fragment
setUrlParams(gameId, trackName) ==
  IF gameId = <<>> THEN NoLocation
  ELSE [search |-> <<63>> \o ParamGame \o <<61>> \o FormEncode(gameId)
                     \o (IF trackName # <<>>
                         THEN <<38>> \o ParamTrack \o <<61>>
                                \o FormEncode(trackName)
                         ELSE <<>>),
        hash   |-> <<>>]

\* tracks.findIndex(t => t.name === name): 0-based, -1 when absent
FindIndex(names, name) ==
  LET at == {i \in 1..Len(names) : names[i] = name}
  IN  IF at = {} THEN -1 ELSE (CHOOSE i \in at : \A j \in at : i <= j) - 1

\* The manifest has two games, g and h; h has the one track a.
GameG == <<103>>
GameH == <<104>>

TracksOf(gameId, tracks) == IF gameId = GameG THEN tracks ELSE <<<<97>>>>

\* handleHashNavigation with the target player ready: the game and the index
\* of the track the deferred play starts
handleHashNavigation(hashInfo, tracks) ==
  IF hashInfo.null \/ hashInfo.gameId = <<>>
  THEN [played |-> FALSE, game |-> <<>>, trackIndex |-> -1]
  ELSE IF hashInfo.gameId \notin {GameG, GameH}
  THEN [played |-> FALSE, game |-> <<>>, trackIndex |-> -1]
  ELSE LET names == TracksOf(hashInfo.gameId, tracks)
           foundIndex == FindIndex(names, hashInfo.trackName)
       IN  IF names = <<>>
           THEN [played |-> FALSE, game |-> hashInfo.gameId, trackIndex |-> -1]
           ELSE [played |-> TRUE, game |-> hashInfo.gameId,
                 trackIndex |-> IF hashInfo.trackName # <<>> /\ foundIndex # -1
                                THEN foundIndex ELSE 0]

\* the most tracks in the catalogue of game g
MaxNames == 2

\* a, b, a blank, "&=", "%2", "+" and "a/b"
TrackNames == {<<97>>, <<98>>, <<32>>, <<38, 61>>, <<37, 50>>, <<43>>,
               <<97, 47, 98>>}

Catalogues(names) == UNION {[1..n -> names] : n \in 0..MaxNames}

\* the locations a page is opened with: none, a legacy hash for h, a query
\* for g with a hash for h, and a query without a game with a hash for g
Locations ==
  {NoLocation,
   [search |-> <<>>, hash |-> <<35, 104, 47, 97>>],
   [search |-> <<63>> \o ParamGame \o <<61, 103, 38>> \o ParamTrack \o <<61, 98>>,
    hash   |-> <<35, 104, 47, 97>>],
   [search |-> <<63>> \o ParamTrack \o <<61, 97>>, hash |-> <<35, 103>>]}

\* ------------------------------------ useM4APlayer: pending callbacks
\* reject: the play() promise of an element that was replaced or discarded
\* has been rejected and its catch handler has not run; timeupdate: such an
\* element's timeupdate event is queued; play: the play event of the current
\* element is queued; meta: the index the loadedmetadata handler of the
\* current element closed over, -1 when that event is not to come.
NoEvents == [reject |-> FALSE, timeupdate |-> FALSE, play |-> FALSE, meta |-> -1]

\* audioRef.current.pause(); removeAttribute('src'); load() on element a:
\* load() drops the events queued for a, rejects its play() promise if
\* playback had not started, and queues a timeupdate if its position was
\* not 0.
Discard(a, started, ev) ==
  [ev EXCEPT !.reject = @ \/ (a.exists /\ ~a.paused /\ ~started),
             !.timeupdate = @ \/ (a.exists /\ a.pos # 0),
             !.play = FALSE,
             !.meta = -1]

\* The duration of the media of track i of game g.
MediaDuration(g, i) == IF g = "A" THEN i ELSE i + 1

\* The tracks of a game whose manifest gives no durations: length 0 says
\* the length is not known, duration is the duration of the media.
UndatedTracks(g) ==
  [i \in 1..ArchiveLen(g) |->
     [GameTracks(g)[i] EXCEPT !.duration = MediaDuration(g, i), !.length = 0]]

\* loadGame(game) sets a probe for each track without a duration
GameProbes(g) == {[i |-> i - 1, dur |-> MediaDuration(g, i)] : i \in 1..ArchiveLen(g)}

\* setTrackList(prev => prev.map((t, j) => j === i ? {...t, length} : t))
SetLength(list, i, dur) ==
  [j \in 1..Len(list) |-> IF j = i + 1 THEN [list[j] EXCEPT !.length = dur]
                          ELSE list[j]]

\* ------------------------------------------------- the OG-tag middleware
\* escapeHtml(str): & < > " become entities
EscapeChar(c) ==
  IF c = 38 THEN <<38, 97, 109, 112, 59>>
  ELSE IF c = 60 THEN <<38, 108, 116, 59>>
  ELSE IF c = 62 THEN <<38, 103, 116, 59>>
  ELSE IF c = 34 THEN <<38, 113, 117, 111, 116, 59>>
  ELSE <<c>>

RECURSIVE escapeHtml(_)
escapeHtml(str) ==
  IF str = <<>> THEN <<>> ELSE EscapeChar(Head(str)) \o escapeHtml(Tail(str))

\* " - ", " | ", " tracks", "/music/", "/icons/og-image.png"
Dash == <<32, 45, 32>>
Bar == <<32, 124, 32>>
TracksWord == <<32, 116, 114, 97, 99, 107, 115>>
MusicDir == <<47, 109, 117, 115, 105, 99, 47>>
DefaultImage == <<47, 105, 99, 111, 110, 115, 47, 111, 103, 45, 105, 109, 97, 103, 101, 46, 112, 110, 103>>

\* The two variants: middleware.js, and onRequest of the readme. brand is
\* the site name of the titles, origin the base of the image URLs, ogImage
\* whether game.ogImage is preferred to the cover, htmlOnly whether a
\* response that is not HTML is returned as it is.
VercelSite ==
  [brand |-> <<57, 32, 80, 108, 97, 121, 101, 114>>, origin |-> <<104, 116, 116, 112, 115, 58, 47, 47, 57, 45, 112, 108, 97, 121, 101, 114, 46, 118, 101, 114, 99, 101, 108, 46, 97, 112, 112>>,
   ogImage |-> FALSE, htmlOnly |-> FALSE]

PagesSite ==
  [brand |-> <<56, 45, 98, 105, 116, 98, 111, 120>>, origin |-> <<104, 116, 116, 112, 115, 58, 47, 47, 111>>,
   ogImage |-> TRUE, htmlOnly |-> TRUE]

\* An HTML document is the sequence of its elements; the tags the
\* middleware looks for carry their content attribute (title: its text).
MetaTags ==
  <<"og:title", "og:description", "og:url", "og:image", "twitter:title",
    "twitter:description", "twitter:image", "title">>

\* html.replace(/<meta property="og:title" content="[^"]*"/, ...): the
\* first element of that tag gets the content; none: html is unchanged
ReplaceTag(html, tag, content) ==
  LET at == {i \in 1..Len(html) : html[i].tag = tag}
  IN  IF at = {} THEN html
      ELSE [html EXCEPT ![CHOOSE i \in at : \A j \in at : i <= j].content =
                          content]

\* a find that takes the first game whatever its id
FirstGame(games, gameId) == IF games = <<>> THEN NullInfo ELSE games[1]

\* manifest.games.find(g => g.id === gameId)
FindGame(games, gameId) ==
  LET at == {i \in 1..Len(games) : games[i].id = gameId}
  IN  IF at = {} THEN NullInfo
      ELSE games[CHOOSE i \in at : \A j \in at : i <= j]

\* The tag values for a game that was found: title, description, imageUrl.
OgValues(game, trackName, site) ==
  LET found == trackName # <<>> /\ FindIndex(game.tracks, trackName) # -1
  IN  [title |-> IF found
                 THEN trackName \o Dash \o game.title \o Bar \o site.brand
                 ELSE game.title \o Dash \o site.brand,
       description |-> IF found
                       THEN OrElse(game.author, game.system) \o Bar \o game.title
                       ELSE game.system \o Bar \o game.trackCount \o TracksWord,
       imageUrl |-> IF site.ogImage /\ game.ogImage # <<>>
                    THEN site.origin \o MusicDir \o game.ogImage
                    ELSE IF game.coverImage # <<>>
                    THEN site.origin \o MusicDir \o game.coverImage
                    ELSE site.origin \o DefaultImage]

\* the eight replacements
ReplaceTags(html, v, href) ==
  LET h1 == ReplaceTag(html, "og:title", escapeHtml(v.title))
      h2 == ReplaceTag(h1, "og:description", escapeHtml(v.description))
      h3 == ReplaceTag(h2, "og:url", escapeHtml(href))
      h4 == ReplaceTag(h3, "og:image", escapeHtml(v.imageUrl))
      h5 == ReplaceTag(h4, "twitter:title", escapeHtml(v.title))
      h6 == ReplaceTag(h5, "twitter:description", escapeHtml(v.description))
      h7 == ReplaceTag(h6, "twitter:image", escapeHtml(v.imageUrl))
  IN  ReplaceTag(h7, "title", escapeHtml(v.title))

\* The try block: a manifest whose fetch or parse throws, or that has no
\* games array, leaves html as it was.
RewriteHtml(html, manifest, gameId, trackName, href, site) ==
  IF manifest.outcome # "ok" THEN html
  ELSE LET game == FindGame(manifest.games, gameId)
       IN  IF game = NullInfo THEN html
           ELSE ReplaceTags(html, OgValues(game, trackName, site), href)

\* middleware(request) and onRequest(context): passed is TRUE when the
\* request goes on unmodified (return, return next(), return response)
middlewareFrom(loc, page, manifest, site) ==
  LET gameId    == SearchParam(loc.search, ParamGame)
      trackName == SearchParam(loc.search, ParamTrack)
  IN  IF gameId = <<>> THEN [passed |-> TRUE, body |-> page.html]
      ELSE IF site.htmlOnly /\ ~page.isHtml
      THEN [passed |-> TRUE, body |-> page.html]
      ELSE [passed |-> FALSE,
            body |-> RewriteHtml(page.html, manifest, gameId, trackName,
                                 site.origin \o <<47>> \o loc.search, site)]

middleware(loc, page, manifest) == middlewareFrom(loc, page, manifest, VercelSite)

onRequest(loc, page, manifest) == middlewareFrom(loc, page, manifest, PagesSite)

\* ---- the requests, pages and manifests drawn
\* a, b and "&="
OgNames == {<<97>>, <<98>>, <<38, 61>>}

\* x: an id no game has
GameX == <<120>>

\* no query, a query without a game, an empty game, and the queries of
\* setUrlParams for g, h and x
Requests ==
  {NoLocation, [search |-> <<63>> \o ParamTrack \o <<61, 97>>, hash |-> <<>>],
   [search |-> <<63>> \o ParamGame \o <<61>>, hash |-> <<>>]}
  \cup {setUrlParams(id, name) :
          id \in {GameG, GameH, GameX}, name \in {<<>>, <<97>>, <<38, 61>>}}

\* the SPA's index.html, and a document that has none of the tags
IndexHtml ==
  [i \in 1..(Len(MetaTags) + 1) |->
     IF i = 1 THEN [tag |-> "body", content |-> <<60, 34, 62>>]
     ELSE [tag |-> MetaTags[i - 1], content |-> <<57, 32, 80, 108, 97, 121, 101, 114>>]]

Pages ==
  {[html |-> IndexHtml, isHtml |-> TRUE],
   [html |-> <<[tag |-> "body", content |-> <<60, 34, 62>>]>>, isHtml |-> TRUE],
   [html |-> <<[tag |-> "body", content |-> <<123, 125>>]>>, isHtml |-> FALSE]}

\* The manifest: game g with the catalogue, titled G"&, and game h with
\* the one track a and an author, a cover and an OG image.
ManifestGames(names) ==
  <<[id |-> GameG, title |-> <<71, 34, 38>>, system |-> <<83>>,
     author |-> <<>>, trackCount |-> <<48 + Len(names)>>,
     coverImage |-> <<>>, ogImage |-> <<>>, tracks |-> names],
    [id |-> GameH, title |-> <<72>>, system |-> <<83>>, author |-> <<65>>,
     trackCount |-> <<49>>, coverImage |-> <<99>>, ogImage |-> <<111>>,
     tracks |-> <<<<97>>>>]>>

Manifests(names) ==
  {[outcome |-> o, games |-> <<>>] : o \in {"fetchFails", "notJson", "noGames"}}
  \cup {[outcome |-> "ok", games |-> ManifestGames(names)]}

VARIABLES
  hook,             \* the hook this instance is: "spc" or "m4a"
  overlap,          \* whether the user starts a session while timers of an
                    \* earlier one are pending
  \* ---- React state (both hooks)
  isReady, isPlaying, currentTrack, trackList, trackInfo, currentTrackIndex,
  elapsed,
  \* ---- useSPCPlayer: refs
  isPlayingRef,     \* isPlayingRef.current
  spcDataRef,       \* spcDataRef.current, the raw payload table
  nodeRef,          \* the ScriptProcessor node in nodeRef.current
  orphanNodes,      \* replaced nodes still connected with a live handler
  gain,             \* gainNodeRef.current.gain.value in 1/FadeSteps; -1: no node
  fadeTimerRef,     \* timer id; 0: null; -1: the id of a timer no longer pending
  endTimerRef,      \* timer id; 0: null; -1: the id of a timer no longer pending
  uiAge,            \* now - uiStartRef.current
  \* ---- useSPCPlayer: environment
  timers,           \* pending setTimeout / setInterval callbacks
  inflight,         \* loadZip calls awaiting their fetch, per archive
  engineTrack,      \* payload the engine was last initialised with
  stackAllocs,      \* engine.allocate(.., ALLOC_STACK) blocks never freed
  \* ---- useM4APlayer
  audioRef,         \* the Audio element in audioRef.current
  \* ---- frequency snapshot (both hooks)
  frequencyData,    \* "zeros", or the source of the last snapshot
  freqLoop,         \* useSPCPlayer's requestAnimationFrame loop is running
  \* ---- the parsers and the archive readers
  buffer,           \* the buffer handed to a parser
  zipFiles,         \* the entries of the archive handed to a reader
  call,             \* the function that ran; "none" before
  result,           \* what it returned
  \* ---- App: the URL
  location,         \* window.location: its search and hash strings
  catalogue,        \* the names of the tracks of game g
  \* ---- useM4APlayer: callbacks that have not run
  audioEvents,      \* of the Audio elements play() created
  probes,           \* the duration probes of loadGame
  \* ---- the page and the engine load effect
  window,           \* window.Module, .allocate, .ALLOC_STACK, .Minizip, and
                    \* whether _my_init, _my_decode and HEAP16 are defined
  scripts,          \* the script tags of minizip and spc_snes.js, and the
                    \* object spc_snes.js took as its Module when it ran
  loaders,          \* each run of the engine load effect
  pollOrder,        \* the readiness polls, in the order they were set
  spcEngineRef,     \* spcEngineRef.current
  early,            \* a run passed loadScript before spc_snes.js had run
  before,           \* the globals before the first load started
  \* ---- App
  vgmPlayer,        \* the state of useVGMPlayer()
  activeFormatRef,  \* activeFormatRef.current
  player,           \* the player the last render of App chose
  screen,           \* 'loading', 'select' or 'player'
  selectedGame,
  initialHashHandled,
  pending,          \* game selections between loadZip and the deferred play
  \* ---- Player component
  isMuted,          \* useState(false)
  volumeBeforeMute, \* useState(0.8), in tenths
  \* ---- history
  last              \* what the last step did

progVars ==
  <<isReady, isPlaying, currentTrack, trackList, trackInfo, currentTrackIndex,
    elapsed, isPlayingRef, spcDataRef, nodeRef, orphanNodes, gain,
    fadeTimerRef, endTimerRef, uiAge, timers, inflight, engineTrack,
    stackAllocs, audioRef>>

uiVars == <<isMuted, volumeBeforeMute>>

visVars == <<frequencyData, freqLoop>>

toolVars == <<buffer, zipFiles, call, result>>

urlVars == <<location, catalogue>>

audioVars == <<audioEvents, probes>>

engVars == <<window, scripts, loaders, pollOrder, spcEngineRef, early, before>>

appVars ==
  <<vgmPlayer, activeFormatRef, player, screen, selectedGame,
    initialHashHandled, pending>>

pageVars == <<hook, overlap, progVars, uiVars, visVars, engVars, appVars, last>>

vars == <<pageVars, toolVars, urlVars, audioVars>>

\* ------------------------------------------------------------- history
NoLast ==
  [op |-> "none", stale |-> FALSE, from |-> 0, n |-> 0, idx |-> 0,
   played |-> FALSE, resumed |-> FALSE, repeat |-> FALSE, age |-> 0, due |-> 0,
   outside |-> FALSE]

Did(op) == [NoLast EXCEPT !.op = op]

\* --------------------------------------------------------------- timers
NoTimerFields ==
  [id |-> 0, kind |-> "", rem |-> 0, sess |-> "cur", period |-> 0, step |-> 0,
   idx |-> 0, list |-> <<>>]

\* Timer ids only tell pending timers apart: a new timer gets the least id no
\* pending timer has, and a ref that holds the id of a timer that has fired
\* or was cleared holds -1.
TimerIds == 1..(MaxTimers + 2)

FreshId(used) == CHOOSE i \in TimerIds : i \notin used /\ \A j \in TimerIds : j < i => j \in used

NewId(tm) == FreshId({t.id : t \in tm})

Spent(ref, tm) == IF ref > 0 /\ ref \notin {t.id : t \in tm} THEN -1 ELSE ref

\* The refs after the pending timers have become s.timers.
Settle(s) ==
  [s EXCEPT !.fadeTimerRef = Spent(@, s.timers),
            !.endTimerRef = Spent(@, s.timers)]

\* rem is the time left to a timer's deadline. The timers of the session
\* that play() started last keep theirs. The user chooses when to call
\* play(), so the timers an earlier session left pending run at any point of
\* the sessions that follow: they are kept without a deadline (rem = -1) and
\* may run at any time. So is a fade interval that has run its FadeSteps
\* steps and was not cleared: every further run has the same effect.
Timed(tm) == {t \in tm : t.rem >= 0}

\* A pending deferred play keeps one more slot for the timers it will set.
TimerLoad(tm) == Cardinality(tm) + Cardinality({t \in tm : t.kind = "play"})

\* play() starts a new session: what is pending belongs to an earlier one.
Outdated(tm) ==
  {IF t.kind = "play" THEN t ELSE [t EXCEPT !.sess = "old", !.rem = -1] :
     t \in tm}

\* clearInterval(fadeTimerRef.current); clearTimeout(endTimerRef.current)
ClearTimers(tm, ids) == {t \in tm : t.id \notin ids}

\* --------------------------------------------------------------- nodes
NoNode == [exists |-> FALSE, connected |-> FALSE, handler |-> FALSE]

\* a disconnect() that leaves the node connected
KeepConnected(node) == node

\* node.disconnect()
Disconnect(node) == [node EXCEPT !.connected = FALSE]

\* node.onaudioprocess = null
Detach(node) == [node EXCEPT !.handler = FALSE]

IsLive(node) == node.exists /\ node.connected /\ node.handler

\* ------------------------------------------------------- audio element
NoAudio == [exists |-> FALSE, src |-> "", paused |-> TRUE, pos |-> 0, dur |-> 0]

\* ------------------------------------------------------- render effects
\* useSPCPlayer's "UI elapsed timer" effect, which runs after a render that
\* changed isPlaying or currentTrack: <<elapsed, uiAge>> after it.
UiEffect(ip, ct, ip2, ct2, el, ua) ==
  IF ip2 = ip /\ ct2 = ct THEN <<el, ua>>
  ELSE IF ip2 /\ ct2 # NullTrack THEN <<el, 0>>
  ELSE <<0, -1>>

\* The hook's state as one record, so that a handler that calls another
\* (play calls stop, nextTrack calls stop, togglePlayback calls pause or
\* play) is the composition of their effects.
Cur ==
  [isReady |-> isReady, isPlaying |-> isPlaying, currentTrack |-> currentTrack,
   trackList |-> trackList, trackInfo |-> trackInfo,
   currentTrackIndex |-> currentTrackIndex, elapsed |-> elapsed,
   isPlayingRef |-> isPlayingRef, spcDataRef |-> spcDataRef,
   nodeRef |-> nodeRef, orphanNodes |-> orphanNodes, gain |-> gain,
   fadeTimerRef |-> fadeTimerRef, endTimerRef |-> endTimerRef,
   uiAge |-> uiAge, timers |-> timers, inflight |-> inflight,
   engineTrack |-> engineTrack, stackAllocs |-> stackAllocs,
   audioRef |-> audioRef]

ApplyState(s) ==
  /\ isReady' = s.isReady
  /\ isPlaying' = s.isPlaying
  /\ currentTrack' = s.currentTrack
  /\ trackList' = s.trackList
  /\ trackInfo' = s.trackInfo
  /\ currentTrackIndex' = s.currentTrackIndex
  /\ elapsed' = s.elapsed
  /\ isPlayingRef' = s.isPlayingRef
  /\ spcDataRef' = s.spcDataRef
  /\ nodeRef' = s.nodeRef
  /\ orphanNodes' = s.orphanNodes
  /\ gain' = s.gain
  /\ fadeTimerRef' = s.fadeTimerRef
  /\ endTimerRef' = s.endTimerRef
  /\ uiAge' = s.uiAge
  /\ timers' = s.timers
  /\ inflight' = s.inflight
  /\ engineTrack' = s.engineTrack
  /\ stackAllocs' = s.stackAllocs
  /\ audioRef' = s.audioRef
  /\ hook' = hook
  /\ overlap' = overlap
  /\ UNCHANGED toolVars
  /\ UNCHANGED urlVars

\* a step that leaves the callbacks of useM4APlayer pending
ApplyHook(s) == ApplyState(s) /\ UNCHANGED audioVars

\* The frequency effects after a render that leaves the hook in state s.
\* useSPCPlayer's depends on isReady alone and starts its loop only if the
\* analyser, which play() creates with the node, exists when it runs;
\* useM4APlayer's zeroes the snapshot when isPlaying is false.
FreqEffect(s) ==
  /\ freqLoop' = (freqLoop \/ (/\ hook = "spc"
                                /\ s.isReady /\ ~isReady
                                /\ s.nodeRef.exists))
  /\ frequencyData' = IF hook = "m4a" /\ ~s.isPlaying THEN "zeros"
                      ELSE frequencyData

\* a step of the hook leaves the Player component's state alone
Apply(s) ==
  /\ ApplyHook(s) /\ FreqEffect(s)
  /\ UNCHANGED uiVars /\ UNCHANGED engVars /\ UNCHANGED appVars

\* The render that follows a handler of useSPCPlayer, and its effects.
Render(s0, s1) ==
  LET ui == UiEffect(s0.isPlaying, s0.currentTrack, s1.isPlaying,
                     s1.currentTrack, s1.elapsed, s1.uiAge)
  IN  Settle([s1 EXCEPT !.elapsed = ui[1], !.uiAge = ui[2]])

\* ----------------------------------------------- useSPCPlayer: handlers
\* stop()
StopOp(s) ==
  [s EXCEPT
     !.timers = ClearTimers(s.timers, {s.fadeTimerRef, s.endTimerRef}),
     !.fadeTimerRef = 0,
     !.endTimerRef = 0,
     !.nodeRef = IF s.nodeRef.exists THEN Disconnect(Detach(s.nodeRef))
                 ELSE s.nodeRef,
     !.isPlayingRef = FALSE,
     !.elapsed = 0,
     !.isPlaying = FALSE,
     !.currentTrack = NullTrack,
     !.trackInfo = ""]

\* a pause() that toggles the flags instead of clearing them
PauseFlips(s) ==
  [s EXCEPT
     !.nodeRef = IF s.nodeRef.exists THEN Disconnect(s.nodeRef) ELSE s.nodeRef,
     !.isPlayingRef = ~s.isPlayingRef,
     !.isPlaying = ~s.isPlaying]

\* pause(), and handleVisibilityChange when the page is hidden
PauseOp(s) ==
  [s EXCEPT
     !.nodeRef = IF s.nodeRef.exists THEN Disconnect(s.nodeRef) ELSE s.nodeRef,
     !.isPlayingRef = FALSE,
     !.isPlaying = FALSE]

\* play(trackIndex, tracks): arg is <<>> for an omitted trackIndex and <<i>>
\* otherwise, ov is <<>> for an omitted tracks; list0 is the trackList the
\* callback closed over.
PlayIdxClamped(s, arg) ==
  IF arg = <<>> THEN s.currentTrackIndex ELSE Max(0, arg[1])

PlayIdx(s, arg) == IF arg = <<>> THEN s.currentTrackIndex ELSE arg[1]

PlayList(ov, list0) == IF ov # <<>> THEN ov ELSE list0

PlayProceeds(s, arg, ov, list0) ==
  LET list == PlayList(ov, list0)
      idx  == PlayIdx(s, arg)
  IN  /\ s.isReady
      /\ Len(list) # 0
      /\ idx \in 0..(Len(list) - 1)
      /\ idx < Len(s.spcDataRef)

\* The two timers play() sets, on the timers tm left pending.
PlayTimers(tm, track) ==
  LET fid == NewId(tm)
      eid == FreshId({t.id : t \in tm} \cup {fid})
  IN  [fade |-> [NoTimerFields EXCEPT !.id = fid, !.kind = "fadeStart",
                   !.rem = FadeStartMs(track), !.period = PlayFade(track)],
       end  |-> [NoTimerFields EXCEPT !.id = eid, !.kind = "end",
                   !.rem = EndDelayMs(track), !.period = EndDelayMs(track)]]

PlayOp(s, arg, ov, list0) ==
  IF ~PlayProceeds(s, arg, ov, list0) THEN s
  ELSE
    LET list  == PlayList(ov, list0)
        idx   == PlayIdx(s, arg)
        track == list[idx + 1]
        entry == s.spcDataRef[idx + 1]
        s1    == IF s.isPlayingRef THEN StopOp(s) ELSE s
        old   == IF s1.nodeRef.exists THEN Disconnect(s1.nodeRef) ELSE s1.nodeRef
        tm    == Outdated(s1.timers)
        new   == PlayTimers(tm, track)
    IN  [s1 EXCEPT
           !.orphanNodes = @ + (IF IsLive(old) THEN 1 ELSE 0),
           !.nodeRef = [exists |-> TRUE, connected |-> TRUE, handler |-> TRUE],
           !.gain = FadeSteps,
           !.stackAllocs = Min(@ + AllocsPerPlay, MaxAllocs),
           !.engineTrack = entry.path,
           !.trackInfo = track.path,
           !.currentTrack = track,
           !.currentTrackIndex = idx,
           !.isPlayingRef = TRUE,
           !.isPlaying = TRUE,
           !.timers = tm \cup {new.fade, new.end},
           !.fadeTimerRef = new.fade.id,
           !.endTimerRef = new.end.id]

\* togglePlayback()
ToggleOp(s) ==
  IF s.isPlaying THEN PauseOp(s)
  ELSE IF s.currentTrack # NullTrack
       THEN PlayOp(s, <<s.currentTrackIndex>>, <<>>, s.trackList)
       ELSE PlayOp(s, <<0>>, <<>>, s.trackList)

\* an increment that does not wrap
NextNoWrap(i, n) == IF n = 0 THEN -1 ELSE i + 1

\* a decrement that does not wrap
PrevNoWrap(i, n) == i - 1

\* (currentTrackIndex + 1) % trackList.length; NaN, when the list is empty,
\* is written -1: it indexes nothing
NextIdx(i, n) == IF n = 0 THEN -1 ELSE (i + 1) % n

\* currentTrackIndex === 0 ? trackList.length - 1 : currentTrackIndex - 1
PrevIdx(i, n) == IF i = 0 THEN n - 1 ELSE i - 1

\* nextTrack() / prevTrack(): stop() and setTimeout(() => play(idx), 100)
SkipOp(s, idx) ==
  LET s1 == StopOp(s)
      id == NewId(s1.timers)
  IN  [s1 EXCEPT
         !.timers = @ \cup
           {[NoTimerFields EXCEPT !.id = id, !.kind = "play",
               !.rem = NextDelayMs, !.idx = idx, !.list = s.trackList]}]

NextTrackOp(s) ==
  SkipOp(s, NextIdx(s.currentTrackIndex, Len(s.trackList)))

PrevTrackOp(s) ==
  SkipOp(s, PrevIdx(s.currentTrackIndex, Len(s.trackList)))

\* loadZip(url), up to its first await
LoadStartOp(s, a) ==
  IF ~s.isReady THEN s
  ELSE [s EXCEPT !.trackList = <<>>,
                 !.currentTrackIndex = 0,
                 !.currentTrack = NullTrack,
                 !.trackInfo = "",
                 !.spcDataRef = <<>>,
                 !.inflight[a] = @ + 1]

\* loadZip(url), from the resolution of its fetch to its return; ok is
\* FALSE when the fetch or the unzip throws
LoadDoneOp(s, a, ok) ==
  IF ~ok THEN [s EXCEPT !.inflight[a] = @ - 1]
  ELSE [s EXCEPT !.inflight[a] = @ - 1,
                 !.spcDataRef = @ \o ArchiveTracks(a),
                 !.trackList = ArchiveTracks(a),
                 !.currentTrackIndex = IF ArchiveLen(a) > 0 THEN 0 ELSE @]

\* ----------------------------------------------- useM4APlayer: handlers
\* loadGame(game)
LoadGameFrom(s, tracks) ==
  [s EXCEPT !.trackList = tracks,
            !.currentTrackIndex = 0,
            !.currentTrack = NullTrack,
            !.trackInfo = "",
            !.elapsed = 0]

M4aPlayProceeds(s, arg, ov) ==
  LET list == PlayList(ov, s.trackList)
      idx  == PlayIdx(s, arg)
  IN  Len(list) # 0 /\ idx \in 0..(Len(list) - 1)

LoadGameOp(s, g) == LoadGameFrom(s, GameTracks(g))

\* play(trackIndex, tracks)
M4aPlayOp(s, arg, ov) ==
  IF ~M4aPlayProceeds(s, arg, ov) THEN s
  ELSE
    LET idx   == PlayIdx(s, arg)
        track == PlayList(ov, s.trackList)[idx + 1]
    IN  [s EXCEPT
           !.audioRef = [exists |-> TRUE, src |-> track.path, paused |-> FALSE,
                         pos |-> 0, dur |-> track.duration],
           !.trackInfo = track.path,
           !.currentTrack = track,
           !.currentTrackIndex = idx,
           !.isPlaying = TRUE]

\* pause()
M4aPauseOp(s) ==
  [s EXCEPT !.audioRef = IF @.exists THEN [@ EXCEPT !.paused = TRUE] ELSE @,
            !.isPlaying = FALSE]

\* stop()
M4aStopOp(s) ==
  [s EXCEPT !.audioRef = NoAudio,
            !.elapsed = 0,
            !.isPlaying = FALSE,
            !.currentTrack = NullTrack,
            !.trackInfo = ""]

\* togglePlayback(); audio.play() on an element that has ended starts over
M4aToggleOp(s) ==
  IF s.isPlaying THEN M4aPauseOp(s)
  ELSE IF s.audioRef.exists /\ s.currentTrack # NullTrack
       THEN [s EXCEPT !.audioRef.paused = FALSE,
                      !.audioRef.pos = IF @ = s.audioRef.dur THEN 0 ELSE @,
                      !.isPlaying = TRUE]
       ELSE M4aPlayOp(s, <<0>>, <<>>)

\* nextTrack() / prevTrack()
M4aNextTrackOp(s) ==
  M4aPlayOp(s, <<NextIdx(s.currentTrackIndex, Len(s.trackList))>>, <<>>)

M4aPrevTrackOp(s) ==
  M4aPlayOp(s, <<PrevIdx(s.currentTrackIndex, Len(s.trackList))>>, <<>>)

\* ------------------------------------------------- engine load: state
Loaders == {1, 2}

\* the object `{ memoryInitializerPrefixURL: '/spc-engine/' }` of run l
Stub == [l \in Loaders |-> IF l = 1 THEN "stub1" ELSE "stub2"]

NoEngine == [allocate |-> "none", ALLOC_STACK |-> "none", init |-> "none",
             Module |-> "none"]

NoLoader ==
  [pc |-> "idle", savedModule |-> "none", savedAllocate |-> "none",
   savedALLOC_STACK |-> "none", polls |-> 0]

\* The page before the first load: with the VGM engine loaded (it has set
\* Module, allocate, ALLOC_STACK and loaded minizip) or without it.
PageGlobals(vgm) ==
  IF vgm
  THEN [Module |-> "vgm", allocate |-> "vgm", ALLOC_STACK |-> "vgm",
        Minizip |-> TRUE, exports |-> FALSE]
  ELSE [Module |-> "none", allocate |-> "none", ALLOC_STACK |-> "none",
        Minizip |-> FALSE, exports |-> FALSE]

InitPage(vgm) ==
  /\ window = PageGlobals(vgm)
  /\ scripts = [minizip |-> IF vgm THEN "loaded" ELSE "absent",
                spc |-> "absent", engineModule |-> "none"]
  /\ loaders = [l \in Loaders |-> NoLoader]
  /\ pollOrder = <<>>
  /\ spcEngineRef = NoEngine
  /\ early = FALSE
  /\ before = PageGlobals(vgm)

\* ---------------------------------------------------------------- Init
InitHook ==
  /\ hook \in {"spc", "m4a"}
  /\ overlap \in BOOLEAN
  /\ isReady = (hook = "m4a")
  /\ isPlaying = FALSE
  /\ currentTrack = NullTrack
  /\ trackList = <<>>
  /\ trackInfo = ""
  /\ currentTrackIndex = 0
  /\ elapsed = 0
  /\ isPlayingRef = FALSE
  /\ spcDataRef = <<>>
  /\ nodeRef = NoNode
  /\ orphanNodes = 0
  /\ gain = -1
  /\ fadeTimerRef = 0
  /\ endTimerRef = 0
  /\ uiAge = -1
  /\ timers = {}
  /\ inflight = [a \in Archives |-> 0]
  /\ engineTrack = ""
  /\ stackAllocs = 0
  /\ audioRef = NoAudio
  /\ frequencyData = "zeros"
  /\ freqLoop = FALSE
  /\ isMuted = FALSE
  /\ volumeBeforeMute = DefaultVolume
  /\ last = NoLast

\* App after its first render
NoVgm == [isReady |-> FALSE, isPlaying |-> FALSE, game |-> ""]

InitApp ==
  /\ vgmPlayer = NoVgm
  /\ activeFormatRef = "vgm"
  /\ player = "vgm"
  /\ screen = "loading"
  /\ selectedGame = ""
  /\ initialHashHandled = FALSE
  /\ pending = {}

\* no parser and no archive reader has been called
InitUrl ==
  /\ location = NoLocation
  /\ catalogue = <<>>

InitAudio ==
  /\ audioEvents = NoEvents
  /\ probes = {}

InitTool ==
  /\ InitUrl
  /\ InitAudio
  /\ buffer = <<>>
  /\ zipFiles = <<>>
  /\ call = "none"
  /\ result = NullInfo

Init == InitHook /\ InitPage(TRUE) /\ InitApp /\ InitTool

\* ------------------------------------------------ useSPCPlayer: actions
\* A handler of useSPCPlayer, then the render.
Handle(s1, l) ==
  /\ hook = "spc"
  /\ TimerLoad(s1.timers) <= MaxTimers
  /\ overlap \/ \A t \in s1.timers : t.sess = "cur"
  /\ Apply(Render(Cur, s1))
  /\ last' = l

\* initPlayer, called once the engine's exports have been captured
InitPlayer ==
  /\ ~isReady
  /\ Handle([Cur EXCEPT !.isReady = TRUE], NoLast)

\* loadZip(url) whose fetch resolves before anything else happens
LoadZip(a) ==
  /\ isReady
  /\ inflight = [x \in Archives |-> 0]
  /\ Handle(LoadDoneOp(LoadStartOp(Cur, a), a, TRUE), NoLast)

LoadZipStart(a) ==
  /\ inflight["A"] + inflight["B"] < MaxLoads
  /\ Handle(LoadStartOp(Cur, a), Did("loadStart"))

\* n: the number of tracks the call returns
LoadZipDone(a, ok) ==
  /\ inflight[a] > 0
  /\ Handle(LoadDoneOp(Cur, a, ok),
            [Did("loadDone") EXCEPT !.n = IF ok THEN ArchiveLen(a) ELSE 0])

PlayArgs == {<<>>} \cup {<<i>> : i \in (-1)..MaxTracks}

\* the index play(arg, ov) is called with is not one of the list it is given
Outside(arg, ov) ==
  LET n == Len(IF ov # <<>> THEN ov ELSE trackList)
      i == IF arg = <<>> THEN currentTrackIndex ELSE arg[1]
  IN  i < 0 \/ i >= n

\* played: play() got past its guards; resumed: it was called on a paused
\* session; outside: its index was out of range
Play(arg, ov) ==
  Handle(PlayOp(Cur, arg, ov, trackList),
         [Did("play") EXCEPT
            !.played = PlayProceeds(Cur, arg, ov, trackList),
            !.outside = Outside(arg, ov),
            !.resumed = nodeRef.exists /\ nodeRef.handler /\ ~isPlayingRef])

\* repeat: pause() was called on a player that is not playing
Pause == Handle(PauseOp(Cur), [Did("pause") EXCEPT !.repeat = ~isPlaying])

\* repeat: stop() was called right after stop()
Stop == Handle(StopOp(Cur), [Did("stop") EXCEPT !.repeat = (last.op = "stop")])

\* resumed: togglePlayback() was called on a paused session; played: it
\* went through play(), which initialises the engine with the payload
TogglePlayback ==
  Handle(ToggleOp(Cur),
         [Did("toggle") EXCEPT
            !.resumed = /\ ~isPlaying /\ currentTrack # NullTrack
                        /\ nodeRef.exists /\ nodeRef.handler,
            !.played = /\ ~isPlaying
                       /\ PlayProceeds(Cur,
                             IF currentTrack # NullTrack
                             THEN <<currentTrackIndex>> ELSE <<0>>,
                             <<>>, trackList)])

\* what a step that moves to another track started from
Nav(op) == [Did(op) EXCEPT !.from = currentTrackIndex, !.n = Len(trackList)]

NextTrack == Handle(NextTrackOp(Cur), Nav("next"))

PrevTrack == Handle(PrevTrackOp(Cur), Nav("prev"))

\* handleVisibilityChange, registered while isPlaying
VisibilityChange(hidden) ==
  /\ isPlaying
  /\ Handle(IF hidden THEN PauseOp(Cur) ELSE Cur, NoLast)

\* ------------------------------------------------------ timer callbacks
Due(t) == t \in timers /\ t.rem \in {0, -1}

\* the fade timeout set by play()
FireFadeStart(t) ==
  /\ Due(t) /\ t.kind = "fadeStart"
  /\ LET rest == timers \ {t}
         step == [NoTimerFields EXCEPT
                    !.id = NewId(timers), !.kind = "fadeStep", !.sess = t.sess,
                    !.period = t.period \div FadeSteps,
                    !.rem = IF t.rem = -1 THEN -1 ELSE t.period \div FadeSteps]
     IN  IF ~isPlayingRef \/ gain = -1
         THEN Handle([Cur EXCEPT !.timers = rest], NoLast)
         ELSE Handle([Cur EXCEPT !.timers = rest \cup {step},
                                 !.fadeTimerRef = step.id], NoLast)

\* now - (the start of the session whose end timer endTimerRef holds)
SessionAge ==
  LET own == {x \in timers : x.id = endTimerRef}
  IN  IF own = {} THEN [age |-> -1, due |-> 0]
      ELSE LET x == CHOOSE x \in own : TRUE
           IN  [age |-> x.period - x.rem, due |-> x.period]

\* one run of the fade interval; n: the value of step after step++, age:
\* the time since the play() that started the session
FireFadeStep(t) ==
  /\ Due(t) /\ t.kind = "fadeStep"
  /\ LET step == Min(t.step + 1, FadeSteps)
         tm   == (timers \ {t}) \cup
                 {[t EXCEPT !.step = step,
                            !.rem = IF step >= FadeSteps \/ t.rem = -1
                                    THEN -1 ELSE t.period]}
     IN  Handle([Cur EXCEPT
                   !.gain = IF @ # -1 THEN Max(0, FadeSteps - step) ELSE @,
                   !.timers = IF step >= FadeSteps
                              THEN ClearTimers(tm, {fadeTimerRef}) ELSE tm,
                   !.fadeTimerRef = IF step >= FadeSteps THEN 0 ELSE @],
                [Did("fadeStep") EXCEPT !.stale = (t.sess = "old"),
                                        !.n = step,
                                        !.age = SessionAge.age])

\* the auto-advance timeout set by play()
FireEnd(t) ==
  /\ Due(t) /\ t.kind = "end"
  /\ LET s0 == [Cur EXCEPT !.timers = timers \ {t}]
     IN  IF isPlayingRef
         THEN Handle(NextTrackOp(s0),
                     [Nav("advance") EXCEPT !.stale = (t.sess = "old"),
                                            !.age = SessionAge.age,
                                            !.due = SessionAge.due])
         ELSE Handle(s0, NoLast)

\* the deferred play(idx) of nextTrack / prevTrack
FirePlay(t) ==
  /\ Due(t) /\ t.kind = "play"
  /\ LET s0 == [Cur EXCEPT !.timers = timers \ {t}]
     IN  Handle(PlayOp(s0, <<t.idx>>, <<>>, t.list),
                [Did("navPlay") EXCEPT
                   !.idx = t.idx, !.n = Len(t.list),
                   !.played = PlayProceeds(s0, <<t.idx>>, <<>>, t.list)])

\* time passes until the next deadline; the UI interval has kept elapsed
Aged(age, d) == IF age = -1 THEN -1 ELSE Min(age + d, AgeCap)

Advance ==
  /\ hook = "spc"
  /\ Timed(timers) # {}
  /\ \A t \in Timed(timers) : t.rem > 0
  /\ LET d  == CHOOSE x \in {t.rem : t \in Timed(timers)} :
                 \A t \in Timed(timers) : x <= t.rem
         ua == Aged(uiAge, d)
     IN  Apply([Cur EXCEPT
                  !.timers = {[t EXCEPT !.rem = IF @ >= 0 THEN @ - d ELSE @] :
                                t \in timers},
                  !.uiAge = ua,
                  !.elapsed = IF ua >= UiIntervalMs
                              THEN Min(currentTrack.length, ua \div MsPerSecond)
                              ELSE @])
  /\ last' = NoLast

\* ------------------------------------------------ useM4APlayer: actions
M4aHandle(s1, l) ==
  /\ hook = "m4a"
  /\ Apply(s1)
  /\ last' = l

LoadGame(g) ==
  M4aHandle(LoadGameOp(Cur, g),
            [Did("loadGame") EXCEPT !.n = Len(GameTracks(g))])

M4aPlay(arg, ov) ==
  M4aHandle(M4aPlayOp(Cur, arg, ov),
            [Did("play") EXCEPT !.played = M4aPlayProceeds(Cur, arg, ov),
                                !.outside = Outside(arg, ov)])

M4aPause ==
  M4aHandle(M4aPauseOp(Cur), [Did("pause") EXCEPT !.repeat = ~isPlaying])

M4aStop ==
  M4aHandle(M4aStopOp(Cur), [Did("stop") EXCEPT !.repeat = (last.op = "stop")])

\* resumed: togglePlayback() was called on a paused element; played: it
\* went through play(), which creates a new element
M4aTogglePlayback ==
  M4aHandle(M4aToggleOp(Cur),
            [Did("toggle") EXCEPT
               !.resumed = /\ ~isPlaying /\ currentTrack # NullTrack
                           /\ audioRef.exists,
               !.played = /\ ~isPlaying
                          /\ ~(audioRef.exists /\ currentTrack # NullTrack)
                          /\ M4aPlayProceeds(Cur, <<0>>, <<>>)])

M4aNextTrack == M4aHandle(M4aNextTrackOp(Cur), Nav("next"))

M4aPrevTrack == M4aHandle(M4aPrevTrackOp(Cur), Nav("prev"))

\* audio.ontimeupdate, one second of playback later
AudioTimeUpdate ==
  /\ audioRef.exists /\ ~audioRef.paused /\ audioRef.pos < audioRef.dur
  /\ M4aHandle([Cur EXCEPT !.audioRef.pos = @ + 1,
                           !.elapsed = audioRef.pos + 1], NoLast)

\* the end of the element's playback: its pause event, then audio.onended
AudioEnded ==
  /\ audioRef.exists /\ ~audioRef.paused /\ audioRef.pos = audioRef.dur
  /\ M4aHandle(M4aNextTrackOp([Cur EXCEPT !.audioRef.paused = TRUE,
                                          !.isPlaying = FALSE]),
               Nav("advance"))

\* ------------------------------------------------- engine load: steps
\* The state the engine load effect reads and writes, as one record.
Eng ==
  [window |-> window, scripts |-> scripts, loaders |-> loaders,
   pollOrder |-> pollOrder, spcEngineRef |-> spcEngineRef, early |-> early,
   isReady |-> isReady]

ApplyEngine(e) ==
  /\ hook = "spc"
  /\ window' = e.window
  /\ scripts' = e.scripts
  /\ loaders' = e.loaders
  /\ pollOrder' = e.pollOrder
  /\ spcEngineRef' = e.spcEngineRef
  /\ early' = e.early
  /\ before' = before
  /\ ApplyHook([Cur EXCEPT !.isReady = e.isReady])
  /\ FreqEffect([Cur EXCEPT !.isReady = e.isReady])
  /\ UNCHANGED uiVars
  /\ UNCHANGED appVars
  /\ last' = NoLast

\* the number of runs of the poll before the timeout clears it
PollLimit == PollTimeoutMs \div PollMs

\* loadScript(src): resolved at once when a tag with that src is in the
\* document, whether or not the script has run; else the tag is inserted
LoadScriptOp(e, which) ==
  IF e.scripts[which] # "absent"
  THEN [e |-> e, resolved |-> TRUE]
  ELSE [e |-> [e EXCEPT !.scripts[which] = "inserted"], resolved |-> FALSE]

\* loadScript('/spc-engine/spc_snes.js').then: the poll and its timeout
StartPoll(e, l) ==
  [e EXCEPT !.loaders[l].pc = "polling",
            !.pollOrder = Append(@, l),
            !.early = @ \/ e.scripts.spc # "loaded"]

\* ensureMinizip.then: save the globals, put the placeholder Module, load
\* the engine script
Continue(e, l) ==
  LET e1 == [e EXCEPT !.loaders[l].savedModule = e.window.Module,
                      !.loaders[l].savedAllocate = e.window.allocate,
                      !.loaders[l].savedALLOC_STACK = e.window.ALLOC_STACK,
                      !.window.Module = Stub[l]]
      r  == LoadScriptOp(e1, "spc")
  IN  IF r.resolved THEN StartPoll(r.e, l)
      ELSE [r.e EXCEPT !.loaders[l].pc = "waitScript"]

\* one run of the poll of run l
Check(e, l) ==
  LET ld   == e.loaders[l]
      n    == ld.polls + 1
      rest == SelectSeq(e.pollOrder, LAMBDA x : x # l)
  IN  IF e.window.exports
      THEN [e EXCEPT
              !.pollOrder = rest,
              !.loaders[l].pc = "captured",
              !.loaders[l].polls = n,
              !.spcEngineRef = [allocate |-> e.window.allocate,
                                ALLOC_STACK |-> e.window.ALLOC_STACK,
                                init |-> "spc",
                                Module |-> e.window.Module],
              !.window.Module = IF ld.savedModule # "none"
                                THEN ld.savedModule ELSE @,
              !.window.allocate = IF ld.savedAllocate # "none"
                                  THEN ld.savedAllocate ELSE @,
              !.window.ALLOC_STACK = IF ld.savedAllocate # "none"
                                     THEN ld.savedALLOC_STACK ELSE @,
              !.isReady = TRUE]
      ELSE IF n >= PollLimit
      THEN [e EXCEPT !.pollOrder = rest,
                     !.loaders[l].pc = "timedOut",
                     !.loaders[l].polls = n]
      ELSE [e EXCEPT !.loaders[l].polls = n]

\* The polls that are due run in the order they were set; with mid the
\* engine's exports become defined after the first of them has run.
RECURSIVE RunPolls(_, _, _)
RunPolls(e, order, mid) ==
  IF order = <<>> THEN e
  ELSE LET e1 == Check(e, Head(order))
       IN  RunPolls(IF mid THEN [e1 EXCEPT !.window.exports = TRUE] ELSE e1,
                    Tail(order), FALSE)

\* the engine load effect runs: waitFor is set, or the effect runs again
EffectRun(l) ==
  /\ loaders[l].pc = "idle"
  /\ \A k \in Loaders : k < l => loaders[k].pc # "idle"
  /\ IF window.Minizip
     THEN ApplyEngine(Continue(Eng, l))
     ELSE LET r == LoadScriptOp(Eng, "minizip")
          IN  IF r.resolved
              THEN ApplyEngine(Continue(r.e, l))
              ELSE ApplyEngine([r.e EXCEPT !.loaders[l].pc = "waitMinizip"])

\* the run that waits for a script tag it inserted
Waiting(pc) ==
  IF \E l \in Loaders : loaders[l].pc = pc
  THEN {CHOOSE l \in Loaders : loaders[l].pc = pc}
  ELSE {}

\* onload of the minizip script
MinizipLoaded ==
  /\ scripts.minizip = "inserted"
  /\ \E l \in Waiting("waitMinizip") :
       ApplyEngine(Continue([Eng EXCEPT !.scripts.minizip = "loaded",
                                        !.window.Minizip = TRUE], l))

\* onerror of the minizip script: the catch handler logs
MinizipFailed ==
  /\ scripts.minizip = "inserted"
  /\ \E l \in Waiting("waitMinizip") :
       ApplyEngine([Eng EXCEPT !.scripts.minizip = "failed",
                               !.loaders[l].pc = "failed"])

\* spc_snes.js runs, on the Module object it finds, and defines its
\* globals; then onload
SpcScriptLoaded ==
  /\ scripts.spc = "inserted"
  /\ \E l \in Waiting("waitScript") :
       ApplyEngine(StartPoll([Eng EXCEPT
                                !.scripts.spc = "loaded",
                                !.scripts.engineModule = window.Module,
                                !.window.allocate = "spc",
                                !.window.ALLOC_STACK = "spc"], l))

\* onerror of spc_snes.js: the catch handler logs
SpcScriptFailed ==
  /\ scripts.spc = "inserted"
  /\ \E l \in Waiting("waitScript") :
       ApplyEngine([Eng EXCEPT !.scripts.spc = "failed",
                               !.loaders[l].pc = "failed"])

\* the engine's runtime finishes initialising: _my_init, _my_decode and
\* HEAP16 are defined
ExportsDefined ==
  /\ scripts.spc = "loaded"
  /\ ~window.exports
  /\ ApplyEngine([Eng EXCEPT !.window.exports = TRUE])

\* PollMs pass: every poll runs once
PollTick(mid) ==
  /\ pollOrder # <<>>
  /\ mid => /\ Len(pollOrder) > 1
            /\ scripts.spc = "loaded"
            /\ ~window.exports
  /\ ApplyEngine(RunPolls(Eng, pollOrder, mid))

\* ------------------------------------------------------------- App
\* The games of the manifest and their format.
Games == {"V1", "V2", "S1"}

Format(g) == IF g = "S1" THEN "spc" ELSE "vgm"

\* useVGMPlayer: loadZip up to its await; without the engine it returns []
VgmLoadStart(v) == IF ~v.isReady THEN v ELSE [v EXCEPT !.game = ""]

\* useVGMPlayer: loadZip returns the catalogue of game g
VgmLoadDone(v, g) == [v EXCEPT !.game = g]

\* useVGMPlayer: play(0, tracks) with a catalogue that is not empty
VgmPlay(v) == IF ~v.isReady THEN v ELSE [v EXCEPT !.isPlaying = TRUE]

\* useVGMPlayer: stop()
VgmStop(v) == [v EXCEPT !.isPlaying = FALSE]

\* getPlayerForGame
GetPlayerForGame(g) == IF Format(g) = "spc" THEN "spc" ELSE "vgm"

\* a step of App: hk is the state of useSPCPlayer() after it, v that of
\* useVGMPlayer(); rendered is whether a state change made App render
AppStep(hk, v, fmt, rendered, sc, sg, hh, pd) ==
  /\ hook = "spc"
  /\ ApplyHook(hk)
  /\ FreqEffect(hk)
  /\ UNCHANGED uiVars
  /\ UNCHANGED engVars
  /\ vgmPlayer' = v
  /\ activeFormatRef' = fmt
  /\ player' = IF rendered THEN fmt ELSE player
  /\ screen' = sc
  /\ selectedGame' = sg
  /\ initialHashHandled' = hh
  /\ pending' = pd
  /\ last' = NoLast

\* useVGMPlayer's engine has loaded
VgmReady ==
  /\ ~vgmPlayer.isReady
  /\ AppStep(Cur, [vgmPlayer EXCEPT !.isReady = TRUE], activeFormatRef, TRUE,
             screen, selectedGame, initialHashHandled, pending)

\* the manifest has loaded and the URL names no game
ManifestLoaded ==
  /\ screen = "loading"
  /\ AppStep(Cur, vgmPlayer, activeFormatRef, TRUE, "select", selectedGame,
             TRUE, pending)

FreePending == (1..MaxPending) \ {p.id : p \in pending}

\* the selection of game g that awaits targetPlayer.loadZip
Awaiting(g) ==
  [id |-> CHOOSE i \in FreePending : \A j \in FreePending : i <= j,
   game |-> g, phase |-> "load"]

\* handleHashNavigation(games, hashInfo) for a game of the VGM format, up
\* to its await; useSPCPlayer() is called without waitFor, so its engine
\* load effect returns at once and spcPlayer.isReady stays false
HandleHashNavigation(g) ==
  /\ screen = "loading" /\ ~initialHashHandled
  /\ Format(g) = "vgm" /\ vgmPlayer.isReady
  /\ FreePending # {}
  /\ AppStep(Cur, VgmLoadStart(vgmPlayer), Format(g), TRUE, "player", g, TRUE,
             pending \cup {Awaiting(g)})

\* handleGameSelect(game), up to its await. For a game of the SPC format
\* targetPlayer.resumeAudio is undefined (useSPCPlayer returns none), so
\* the call throws after activeFormatRef has been written.
HandleGameSelect(g) ==
  /\ screen = "select"
  /\ FreePending # {}
  /\ LET switch == Format(g) # activeFormatRef
         v1  == IF switch /\ player = "vgm" THEN VgmStop(vgmPlayer)
                ELSE vgmPlayer
         hk1 == IF switch /\ player = "spc" THEN Render(Cur, StopOp(Cur))
                ELSE Cur
     IN  IF GetPlayerForGame(g) = "spc"
         THEN AppStep(hk1, v1, Format(g), v1 # vgmPlayer \/ hk1 # Cur, screen,
                      selectedGame, initialHashHandled, pending)
         ELSE AppStep(hk1, IF v1.isReady THEN VgmLoadStart(v1) ELSE v1,
                      Format(g), TRUE, "player", g, initialHashHandled,
                      IF v1.isReady THEN pending \cup {Awaiting(g)}
                      ELSE pending)

\* targetPlayer.loadZip resolves: with tracks, the play is deferred by
\* NextDelayMs; without (ok is FALSE), the selection ends
LoadResolved(p, ok) ==
  /\ p \in pending /\ p.phase = "load"
  /\ AppStep(Cur, IF ok THEN VgmLoadDone(vgmPlayer, p.game) ELSE vgmPlayer,
             activeFormatRef, TRUE, screen, selectedGame, initialHashHandled,
             IF ok THEN (pending \ {p}) \cup {[p EXCEPT !.phase = "timer"]}
             ELSE pending \ {p})

\* setTimeout(() => targetPlayer.play(0, tracks), 100) fires
DeferredPlay(p) ==
  /\ p \in pending /\ p.phase = "timer"
  /\ AppStep(Cur, VgmPlay(vgmPlayer), activeFormatRef, TRUE, screen,
             selectedGame, initialHashHandled, pending \ {p})

\* handleBack
HandleBack ==
  /\ screen = "player"
  /\ AppStep(Render(Cur, StopOp(Cur)), VgmStop(vgmPlayer), activeFormatRef,
             TRUE, "select", "", initialHashHandled, pending)

\* ------------------------------------------------- rendering frames
\* A rendering frame: the tick of the loop that is running, if any.
AnimationFrame ==
  /\ ApplyHook(Cur)
  /\ UNCHANGED <<uiVars, engVars, appVars, freqLoop>>
  /\ frequencyData' =
       IF hook = "spc"
       THEN (IF freqLoop THEN "analyser" ELSE frequencyData)
       ELSE (IF isPlaying THEN "synthetic" ELSE frequencyData)
  /\ last' = Did("frame")

\* ---------------------------------------------- Player: volume control
\* The ratio the control hands to onVolumeChange?.(ratio): App passes no
\* onVolumeChange and no volume to Player, and neither hook returns a
\* setVolume, so the call does nothing; n is the ratio, in tenths.
OnVolumeChange(ratio) ==
  /\ ApplyHook(Cur)
  /\ FreqEffect(Cur)
  /\ UNCHANGED engVars
  /\ UNCHANGED appVars
  /\ last' = [Did("setVolume") EXCEPT !.n = ratio]

\* a click on the volume icon; the volume prop is its default
MuteClick ==
  IF isMuted
  THEN /\ isMuted' = FALSE
       /\ UNCHANGED volumeBeforeMute
       /\ OnVolumeChange(volumeBeforeMute)
  ELSE /\ volumeBeforeMute' = DefaultVolume
       /\ isMuted' = TRUE
       /\ OnVolumeChange(0)

\* a click on the volume bar at ratio
VolumeBarClick(ratio) ==
  /\ isMuted' = FALSE
  /\ UNCHANGED volumeBeforeMute
  /\ OnVolumeChange(Max(0, Min(FullVolume, ratio)))

\* the gain between the ScriptProcessor node and the destination, in
\* 1/FadeSteps: the chain has the one GainNode the fade writes
OutputGain == gain

\* -------------------------------------------------------- specifications
Controls ==
  \/ \E arg \in PlayArgs, ov \in {<<>>, trackList} : Play(arg, ov)
  \/ Pause
  \/ Stop
  \/ TogglePlayback
  \/ NextTrack
  \/ PrevTrack
  \/ \E hidden \in BOOLEAN : VisibilityChange(hidden)

Callbacks ==
  \/ \E t \in timers : FireFadeStart(t)
  \/ \E t \in timers : FireFadeStep(t)
  \/ \E t \in timers : FireEnd(t)
  \/ \E t \in timers : FirePlay(t)
  \/ Advance

M4aNext ==
  \/ \E g \in Archives : LoadGame(g)
  \/ \E arg \in PlayArgs, ov \in {<<>>, trackList} : M4aPlay(arg, ov)
  \/ M4aPause
  \/ M4aStop
  \/ M4aTogglePlayback
  \/ M4aNextTrack
  \/ M4aPrevTrack
  \/ AudioTimeUpdate
  \/ AudioEnded

\* Playback: loads that complete before anything else happens, every control
\* operation, every timer.
Next ==
  \/ InitPlayer
  \/ \E a \in Archives : LoadZip(a)
  \/ Controls
  \/ Callbacks
  \/ M4aNext

Spec == Init /\ [][Next]_vars

\* Sessions that do not overlap: play() is called only when no timer of an
\* earlier session is pending.
InitSolo == Init /\ ~overlap

SpecSolo == InitSolo /\ [][Next]_vars

\* Loading: loadZip calls that overlap, and the controls that read the
\* catalogue; no deadline is reached.
InitLoading == Init /\ hook = "spc" /\ overlap

NextLoading ==
  \/ InitPlayer
  \/ \E a \in Archives : LoadZipStart(a)
  \/ \E a \in Archives, ok \in BOOLEAN : LoadZipDone(a, ok)
  \/ \E arg \in PlayArgs, ov \in {<<>>, trackList} : Play(arg, ov)
  \/ Stop

SpecLoading == InitLoading /\ [][NextLoading]_vars

\* Volume: one archive, one session and its fade, and the volume control.
InitVolume == Init /\ hook = "spc" /\ ~overlap

NextVolume ==
  \/ InitPlayer
  \/ LoadZip("A")
  \/ \E i \in 0..(MaxTracks - 1) : Play(<<i>>, <<>>)
  \/ Pause
  \/ \E t \in timers : FireFadeStart(t)
  \/ \E t \in timers : FireFadeStep(t)
  \/ Advance
  \/ MuteClick
  \/ \E ratio \in {0, FullVolume \div 2, FullVolume} : VolumeBarClick(ratio)

SpecVolume == InitVolume /\ [][NextVolume]_vars

\* Engine load: the page with or without the VGM engine, up to two runs of
\* the engine load effect, and the calls the hook guards with isReady.
InitEngine ==
  /\ InitHook /\ hook = "spc" /\ ~overlap /\ InitApp /\ InitTool
  /\ \E vgm \in BOOLEAN : InitPage(vgm)

NextEngine ==
  \/ \E l \in Loaders : EffectRun(l)
  \/ MinizipLoaded
  \/ MinizipFailed
  \/ SpcScriptLoaded
  \/ SpcScriptFailed
  \/ ExportsDefined
  \/ \E mid \in BOOLEAN : PollTick(mid)
  \/ LoadZipStart("A")
  \/ Play(<<0>>, <<>>)

SpecEngine == InitEngine /\ [][NextEngine]_vars

\* App: the two players, game selections, back navigation and the deferred
\* plays.
InitSwitch == Init /\ hook = "spc" /\ ~overlap

NextSwitch ==
  \/ VgmReady
  \/ ManifestLoaded
  \/ \E g \in Games : HandleHashNavigation(g)
  \/ \E g \in Games : HandleGameSelect(g)
  \/ \E p \in pending, ok \in BOOLEAN : LoadResolved(p, ok)
  \/ \E p \in pending : DeferredPlay(p)
  \/ HandleBack

SpecSwitch == InitSwitch /\ [][NextSwitch]_vars

\* ------------------------------------------------- calls of the parsers
Return(fn, value) ==
  /\ call = "none"
  /\ call' = fn
  /\ result' = value
  /\ UNCHANGED <<buffer, zipFiles, pageVars, urlVars, audioVars>>

ParseSPC == Return("parseSPCID666", parseSPCID666(buffer))

HookParseSPC == Return("hookParseSPCID666", hookParseSPCID666(buffer))

LoadSpcEntry == Return("loadZip", LoadEntry("a.spc", buffer))

\* SPC tags: a buffer, handed to one of the two parsers or to the loop body
\* of loadZip.
InitSpcTags ==
  /\ InitHook /\ hook = "spc" /\ ~overlap /\ InitPage(TRUE) /\ InitApp
  /\ InitAudio
  /\ InitUrl
  /\ buffer \in SpcBuffers(Signatures)
  /\ zipFiles = <<>>
  /\ call = "none"
  /\ result = NullInfo

NextSpcTags == ParseSPC \/ HookParseSPC \/ LoadSpcEntry

SpecSpcTags == InitSpcTags /\ [][NextSpcTags]_vars

ParseVGM == Return("parseVGMTitle", parseVGMTitle(buffer))

\* VGM tags: a buffer, handed to parseVGMTitle.
InitVgmTags ==
  /\ InitHook /\ hook = "spc" /\ ~overlap /\ InitPage(TRUE) /\ InitApp
  /\ InitAudio
  /\ InitUrl
  /\ buffer \in VgmBuffers(Gd3Chars)
  /\ zipFiles = <<>>
  /\ call = "none"
  /\ result = NullInfo

NextVgmTags == ParseVGM

SpecVgmTags == InitVgmTags /\ [][NextVgmTags]_vars

\* -------------------------------------------- calls of the archive readers
ProcessZipFile == Return("processZipFile", processZipFile(zipFiles))

ProcessSPCZipFile == Return("processSPCZipFile", processSPCZipFile(zipFiles))

MainVgm ==
  Return("mainVgm",
         [games |-> Game("vgm", processZipFile(zipFiles), ZipStem, Unknown)])

MainSpc ==
  Return("mainSpc",
         [games |-> Game("spc", processSPCZipFile(zipFiles), ZipStem,
                         SuperNintendo)])

HookLoadZip == Return("loadZip", [tracks |-> loadZipFrom(zipFiles, 1, <<>>)])

\* Archives: an archive, handed to one of the readers.
InitArchives ==
  /\ InitHook /\ hook = "spc" /\ ~overlap /\ InitPage(TRUE) /\ InitApp
  /\ InitAudio
  /\ buffer = <<>>
  /\ InitUrl
  /\ zipFiles \in ZipArchives(EntryKinds)
  /\ call = "none"
  /\ result = NullInfo

NextArchives ==
  \/ ProcessZipFile
  \/ ProcessSPCZipFile
  \/ MainVgm
  \/ MainSpc
  \/ HookLoadZip

SpecArchives == InitArchives /\ [][NextArchives]_vars

\* ------------------------------------------------------ App: URL steps
\* the URL update effect, when track i of game g has become the current one
UrlUpdate(i) ==
  /\ call = "none"
  /\ i < Len(catalogue)
  /\ location' = setUrlParams(GameG, catalogue[i + 1])
  /\ call' = "setUrlParams"
  /\ result' = [index |-> i]
  /\ UNCHANGED <<buffer, zipFiles, catalogue, pageVars, audioVars>>

\* the page is opened at the location: parseUrlParams, then
\* handleHashNavigation once the manifest and the player are there
PageLoad ==
  /\ call \in {"none", "setUrlParams"}
  /\ call' = "handleHashNavigation"
  /\ result' = [written |-> call = "setUrlParams",
                index   |-> IF call = "setUrlParams" THEN result.index ELSE -1,
                nav     |-> handleHashNavigation(parseUrlParams(location),
                                                 catalogue)]
  /\ UNCHANGED <<buffer, zipFiles, urlVars, pageVars, audioVars>>

\* URL: a catalogue and a location; a track is played, the page is reopened.
InitUrlTrip ==
  /\ InitHook /\ hook = "spc" /\ ~overlap /\ InitPage(TRUE) /\ InitApp
  /\ InitAudio
  /\ buffer = <<>>
  /\ zipFiles = <<>>
  /\ call = "none"
  /\ result = NullInfo
  /\ location \in Locations
  /\ catalogue \in Catalogues(TrackNames)

NextUrlTrip == (\E i \in 0..(MaxNames - 1) : UrlUpdate(i)) \/ PageLoad

SpecUrlTrip == InitUrlTrip /\ [][NextUrlTrip]_vars

\* ------------------------------- useM4APlayer with its pending callbacks
\* A handler or a callback of useM4APlayer. The catch handler of a rejected
\* play() promise is a microtask: it runs before any other callback.
AudioHandle(s1, ev, pr, l) ==
  /\ hook = "m4a"
  /\ ApplyState(s1) /\ FreqEffect(s1)
  /\ UNCHANGED uiVars /\ UNCHANGED engVars /\ UNCHANGED appVars
  /\ audioEvents' = ev
  /\ probes' = pr
  /\ last' = l

\* loadGame(game) of a game whose manifest gives no durations
LoadGameProbing(g) ==
  /\ ~audioEvents.reject
  /\ AudioHandle(LoadGameFrom(Cur, UndatedTracks(g)), audioEvents,
                 probes \cup GameProbes(g),
                 [Did("loadGame") EXCEPT !.n = ArchiveLen(g)])

\* probe.onloadedmetadata
ProbeLoaded(p) ==
  /\ ~audioEvents.reject
  /\ p \in probes
  /\ AudioHandle([Cur EXCEPT !.trackList = SetLength(@, p.i, p.dur)],
                 audioEvents, probes \ {p},
                 [Did("probe") EXCEPT !.idx = p.i, !.n = p.dur])

\* play(trackIndex); started: the element it replaces had begun to play
PlayElement(arg) ==
  /\ ~audioEvents.reject
  /\ \E started \in BOOLEAN :
       /\ audioRef.pos > 0 => started
       /\ AudioHandle(M4aPlayOp(Cur, arg, <<>>),
                      IF M4aPlayProceeds(Cur, arg, <<>>)
                      THEN [Discard(audioRef, started, audioEvents) EXCEPT
                              !.play = TRUE, !.meta = PlayIdx(Cur, arg)]
                      ELSE audioEvents,
                      probes,
                      [Did("play") EXCEPT
                         !.played = M4aPlayProceeds(Cur, arg, <<>>),
                         !.stale = audioRef.exists])

\* stop()
StopElement ==
  /\ ~audioEvents.reject
  /\ \E started \in BOOLEAN :
       /\ audioRef.pos > 0 => started
       /\ AudioHandle(M4aStopOp(Cur), Discard(audioRef, started, audioEvents),
                      probes, Did("stop"))

\* audio.play().catch(e => { ...; setIsPlaying(false) }) of an element that
\* is no longer audioRef.current
PlayRejected ==
  /\ audioEvents.reject
  /\ AudioHandle([Cur EXCEPT !.isPlaying = FALSE],
                 [audioEvents EXCEPT !.reject = FALSE], probes,
                 Did("playRejected"))

\* audio.ontimeupdate of an element that is no longer audioRef.current:
\* load() has set its currentTime to 0
StaleTimeUpdate ==
  /\ ~audioEvents.reject
  /\ audioEvents.timeupdate
  /\ AudioHandle([Cur EXCEPT !.elapsed = 0],
                 [audioEvents EXCEPT !.timeupdate = FALSE], probes,
                 Did("staleTimeUpdate"))

\* audio.onplay of the current element
PlayEvent ==
  /\ ~audioEvents.reject
  /\ audioEvents.play
  /\ AudioHandle([Cur EXCEPT !.isPlaying = TRUE],
                 [audioEvents EXCEPT !.play = FALSE], probes, Did("onplay"))

\* audio.onloadedmetadata of the current element
AudioLoadedMetadata ==
  /\ ~audioEvents.reject
  /\ audioEvents.meta >= 0
  /\ AudioHandle([Cur EXCEPT
                    !.currentTrack = IF @ = NullTrack THEN @
                                     ELSE [@ EXCEPT !.length = audioRef.dur],
                    !.trackList = SetLength(@, audioEvents.meta, audioRef.dur)],
                 [audioEvents EXCEPT !.meta = -1], probes,
                 [Did("metadata") EXCEPT !.idx = audioEvents.meta])

InitAudioEvents == Init /\ hook = "m4a" /\ ~overlap

NextAudioEvents ==
  \/ \E g \in Archives : LoadGameProbing(g)
  \/ \E p \in probes : ProbeLoaded(p)
  \/ \E i \in 0..(MaxTracks - 1) : PlayElement(<<i>>)
  \/ StopElement
  \/ PlayRejected
  \/ StaleTimeUpdate
  \/ PlayEvent
  \/ AudioLoadedMetadata
  \/ ~audioEvents.reject /\ AudioTimeUpdate

SpecAudioEvents == InitAudioEvents /\ [][NextAudioEvents]_vars

\* ------------------------------------------- the engine load effect, mounted
\* A run of the engine load effect in a render whose caller passed waitFor
\* or did not: `if (!waitFor) return`.
Mount(l, waitFor) ==
  IF waitFor THEN EffectRun(l)
  ELSE /\ loaders[l].pc = "idle"
       /\ \A k \in Loaders : k < l => loaders[k].pc # "idle"
       /\ ApplyEngine([Eng EXCEPT !.loaders[l].pc = "returned"])

NextMount ==
  \/ \E l \in Loaders, waitFor \in BOOLEAN : Mount(l, waitFor)
  \/ MinizipLoaded
  \/ MinizipFailed
  \/ SpcScriptLoaded
  \/ SpcScriptFailed
  \/ ExportsDefined
  \/ \E mid \in BOOLEAN : PollTick(mid)

\* Every callback that is pending runs: the scripts settle, the engine
\* defines its exports once its script has run, the poll interval ticks.
SpecMount == InitEngine /\ [][NextMount]_vars /\ WF_vars(NextMount)

\* ------------------------------------------------- the OG-tag middleware
\* A request for location, answered by the middleware; page is what the
\* fetch of the document returns, manifest what the fetch of the manifest
\* does.
Served(fn, page, manifest, response) ==
  /\ call = "none"
  /\ call' = fn
  /\ result' = [gameId    |-> SearchParam(location.search, ParamGame),
                trackName |-> SearchParam(location.search, ParamTrack),
                page      |-> page,
                manifest  |-> manifest,
                passed    |-> response.passed,
                body      |-> response.body]
  /\ UNCHANGED <<buffer, zipFiles, urlVars, pageVars, audioVars>>

Middleware(page, manifest) ==
  Served("middleware", page, manifest, middleware(location, page, manifest))

OnRequest(page, manifest) ==
  Served("onRequest", page, manifest, onRequest(location, page, manifest))

InitOgTags ==
  /\ InitHook /\ hook = "spc" /\ ~overlap /\ InitPage(TRUE) /\ InitApp
  /\ InitAudio
  /\ buffer = <<>>
  /\ zipFiles = <<>>
  /\ call = "none"
  /\ result = NullInfo
  /\ location \in Requests
  /\ catalogue \in Catalogues(OgNames)

NextOgTags ==
  \/ \E page \in Pages, manifest \in Manifests(catalogue) :
       Middleware(page, manifest)
  \/ \E page \in Pages, manifest \in Manifests(catalogue) :
       OnRequest(page, manifest)

SpecOgTags == InitOgTags /\ [][NextOgTags]_vars

\* Frames: playback as in SpecSolo, and the rendering frames.
NextFrames == Next \/ AnimationFrame

SpecFrames == InitSolo /\ [][NextFrames]_vars

\* ----------------------------------------------------------------- claims
\* the fade and auto-advance timers among tm
SessionTimers(tm) == {t \in tm : t.kind \in {"fadeStart", "fadeStep", "end"}}

\* the ScriptProcessor nodes that are connected with a live onaudioprocess
LiveNodes == orphanNodes + (IF IsLive(nodeRef) THEN 1 ELSE 0)

NoLoading == inflight = [a \in Archives |-> 0]

\* the deferred play(idx) of nextTrack, once it has got past the guards of
\* play(), has made idx the current index and started the track
DeferredPlayLands ==
  (last.op = "navPlay" /\ last.played) =>
    /\ currentTrackIndex = last.idx
    /\ isPlaying
    /\ currentTrack # NullTrack

\* the step scheduled, or in useM4APlayer started, the track at index idx
Moved(idx) ==
  IF hook = "spc"
  THEN \E t \in timers : /\ t.kind = "play"
                         /\ t.rem = NextDelayMs
                         /\ t.idx = idx
                         /\ Len(t.list) = last.n
  ELSE currentTrackIndex = idx /\ isPlaying

\* C1: a fade step or an auto-advance callback that runs belongs to the most
\* recent play(): no timer left by an earlier session changes the gain or
\* invokes nextTrack.
C1_CallbacksBelongToSession ==
  last.op \in {"fadeStep", "advance"} => ~last.stale

\* C2: right after stop() and after pause() no fade timeout, fade interval or
\* auto-advance timer is pending, and right after a play() that started a
\* session none of an earlier session is.
C2_NoEarlierTimerPending ==
  /\ (hook = "spc" /\ last.op \in {"stop", "pause"}) =>
       SessionTimers(timers) = {}
  /\ (hook = "spc" /\ last.op = "play" /\ last.played) =>
       \A t \in SessionTimers(timers) : t.sess = "cur"

\* C3: any number of play() calls leaves the native allocations of one
\* session only: those of the sessions before were released.
C3_OneSessionAllocated == stackAllocs <= AllocsPerPlay

\* C4: in every state at most one ScriptProcessor node is connected with a
\* live onaudioprocess handler.
C4_OneLiveCallback == LiveNodes <= 1

\* a play() on a paused session has replaced the node
C4_Witness ==
  /\ last.op = "play" /\ last.played /\ last.resumed
  /\ IsLive(nodeRef)
  /\ LiveNodes = 1

\* C5: once the loadZip calls have completed, the track list and the payload
\* table have the same length and the same path at every index.
C5_CatalogueMatchesPayloads ==
  (NoLoading /\ last.op = "loadDone") =>
    /\ Len(trackList) = Len(spcDataRef)
    /\ \A i \in 1..Len(trackList) : spcDataRef[i].path = trackList[i].path

\* C6: the end timer invokes nextTrack only d*1000 + f + 500 ms after the
\* play() that started the session in progress.
C6_AdvanceAtDeadline ==
  (hook = "spc" /\ last.op = "advance") => last.age = last.due

\* C7: the auto-advance at the end of track i of an N-track catalogue starts
\* track (i + 1) mod N, from the SPC end timer (through the deferred play) and
\* from the M4A ended event.
C7_AutoAdvanceNext ==
  /\ (last.op = "advance" /\ last.n >= 1) =>
       Moved((last.from + 1) % last.n)
  /\ DeferredPlayLands

\* the end of the last track has wrapped to track 0
C7_Witness ==
  /\ last.op = "advance"
  /\ last.n >= 2
  /\ last.from = last.n - 1
  /\ Moved(0)

C9_RepeatIsNoOp ==
  [][(last'.op \in {"stop", "pause"} /\ last'.repeat) => UNCHANGED progVars]_vars

\* stop() was called a second time after a session was played and stopped
C9_Witness ==
  /\ last.op = "stop" /\ last.repeat
  /\ engineTrack # ""
  /\ trackList # <<>>

\* C11: togglePlayback() after pause() continues the paused session: it does
\* not go through play(), so the SPC engine is not initialised again and the
\* M4A element is not replaced.
C11_PauseResumable ==
  (last.op = "toggle" /\ last.resumed) => ~last.played

\* C12: when loadZip (engine ready) or loadGame returns the new catalogue,
\* the transient state is reset: no current track, no track info, elapsed 0
\* and current index 0.
C12_LoadResetsTransient ==
  (last.op \in {"loadDone", "loadGame"} /\ last.n > 0) =>
    /\ currentTrack = NullTrack
    /\ trackInfo = ""
    /\ elapsed = 0
    /\ currentTrackIndex = 0

\* C13: play(i) with i outside 0..len-1 of the list it is given (negative, too
\* large, or any i on an empty list) changes nothing in either hook: not
\* isPlaying, currentTrack, currentTrackIndex, trackInfo, the audio session
\* or the pending timers.
C13_OutOfRangeIsNoOp ==
  [][(last'.op = "play" /\ last'.outside) => UNCHANGED progVars]_vars

\* play() with an index out of range was called during a session of
\* useSPCPlayer whose timers are pending
C13_Witness ==
  /\ last.op = "play" /\ last.outside
  /\ hook = "spc" /\ isPlaying /\ SessionTimers(timers) # {}

C19_VolumeTimesFade ==
  (last.op = "setVolume" /\ gain # -1) =>
    OutputGain * FullVolume = last.n * gain

\* C20: in useSPCPlayer the reported elapsed time is never negative, never
\* above the declared duration of the current track, and 0 whenever nothing
\* is playing.
C20_ElapsedWithinDuration ==
  hook = "spc" =>
    /\ elapsed >= 0
    /\ currentTrack # NullTrack => elapsed <= currentTrack.duration
    /\ (~isPlaying \/ currentTrack = NullTrack) => elapsed = 0

\* run l of the engine load effect has settled
Settled(l) == loaders[l].pc \in {"captured", "timedOut", "failed"}

\* window.Module, window.allocate and window.ALLOC_STACK are what they were
\* before the first load started
GlobalsRestored ==
  /\ window.Module = before.Module
  /\ window.allocate = before.allocate
  /\ window.ALLOC_STACK = before.ALLOC_STACK

\* C14: once a load of the SPC engine has settled, by capturing the exports,
\* by a script error or by the poll's timeout, window.Module, window.allocate
\* and window.ALLOC_STACK hold the values they had before it started.
C14_GlobalsRestoredAfterLoad ==
  (Settled(1) /\ loaders[2].pc = "idle") => GlobalsRestored

\* C15: two runs of the engine load of which the second starts while the
\* first is in flight share one load: the second does not pass loadScript
\* before spc_snes.js has run, and once both have captured the exports the
\* globals are restored and spcEngineRef holds the SPC engine's functions
\* and Module.
C15_ConcurrentLoadsShare ==
  (loaders[1].pc = "captured" /\ loaders[2].pc = "captured") =>
    /\ ~early
    /\ GlobalsRestored
    /\ spcEngineRef = [allocate |-> "spc", ALLOC_STACK |-> "spc",
                       init |-> "spc", Module |-> scripts.engineModule]

\* C16: while isReady is false loadZip and play() change nothing; a poll the
\* timeout has cleared never runs again; and a load that ended by the
\* timeout leaves the other engine's globals as they were.
C16_UnavailableIsConfined ==
  /\ [][(~isReady /\ last'.op \in {"play", "loadStart"}) =>
          UNCHANGED progVars]_vars
  /\ [][\A l \in Loaders :
          loaders[l].pc = "timedOut" => loaders'[l] = loaders[l]]_vars
  /\ []((loaders[1].pc = "timedOut" /\ loaders[2].pc = "idle") =>
          GlobalsRestored)

\* C17: in App the player of a format stopped by the selection of a game of
\* the other format does not play again while the other format is active:
\* a player that is playing is the player of the active format, and the two
\* players are never both playing.
C17_OnlyActiveFormatPlays ==
  /\ ~(vgmPlayer.isPlaying /\ isPlaying)
  /\ vgmPlayer.isPlaying => activeFormatRef = "vgm"
  /\ isPlaying => activeFormatRef = "spc"

\* C21: the auto-advance at the end of the last track of the catalogue stops
\* playback: isPlaying is false and no track is started or scheduled, instead
\* of wrapping to track 0.
C21_EndOfCatalogueStops ==
  (last.op = "advance" /\ last.n >= 1 /\ last.from = last.n - 1) =>
    /\ ~isPlaying
    /\ \A t \in timers : t.kind # "play"

\* C22: the frequency snapshot is all zeros whenever the player is not
\* playing, and a rendering frame that passes while a track is playing
\* leaves a snapshot computed on that frame.
C22_SnapshotFollowsPlayback ==
  /\ ~isPlaying => frequencyData = "zeros"
  /\ (last.op = "frame" /\ isPlaying) => frequencyData # "zeros"

\* the buffer starts with the SPC signature
HasSignature ==
  Len(buffer) >= Len(SpcMagic) /\ SubSeq(buffer, 1, Len(SpcMagic)) = SpcMagic

\* the duration field is there and holds no digit
DurationNotNumeric ==
  /\ Len(buffer) >= DurationOffset + DurationLen
  /\ \A i \in 1..DurationLen : ~IsDigit(buffer[DurationOffset + i])

\* C23: each SPC parser returns null for a buffer that does not start with
\* the SPC signature and, for one that does and whose 3-byte duration field
\* is not numeric, a duration of 0, for which loadZip takes 180 seconds.
C23_ParsersCheckSignature ==
  /\ call \in {"parseSPCID666", "hookParseSPCID666"} =>
       /\ ~HasSignature => result.null
       /\ (HasSignature /\ DurationNotNumeric) =>
            (~result.null /\ result.duration = 0)
  /\ (call = "loadZip" /\ HasSignature /\ DurationNotNumeric) =>
       result.duration = DefaultDuration

\* the buffer ends before the end of the last field of the tag
Truncated == Len(buffer) < ArtistOffset + TextLen

\* C24: a parser of SPC tags returns null, without throwing, for every buffer
\* with a structural mismatch: a wrong signature or a buffer cut short.
C24_MismatchGivesNull ==
  call \in {"parseSPCID666", "hookParseSPCID666"} =>
    ((~HasSignature \/ Truncated) => result.null)

\* the buffer has the VGM magic and a GD3 offset field
HasVgmMagic ==
  Len(buffer) >= Gd3OffsetAt + 4 /\ SubSeq(buffer, 1, 4) = VgmMagic

\* the position the GD3 offset field points to
Gd3At ==
  Gd3OffsetAt + buffer[21] + 256 * buffer[22] + 65536 * buffer[23]
    + 16777216 * buffer[24]

\* the GD3 block is present: the offset is not 0 and points to "Gd3 "
HasGd3 ==
  /\ HasVgmMagic
  /\ Gd3At # Gd3OffsetAt
  /\ Len(buffer) >= Gd3At + 4
  /\ SubSeq(buffer, Gd3At + 1, Gd3At + 4) = Gd3Magic

\* the complete 16-bit units behind the GD3 header
Gd3Units ==
  LET from == Gd3At + Gd3HeaderLen
      n    == IF Len(buffer) > from THEN (Len(buffer) - from) \div 2 ELSE 0
  IN  [i \in 1..n |-> buffer[from + 2 * i - 1] + 256 * buffer[from + 2 * i]]

\* the k-th null-terminated string of the units; empty when there is none
KthString(k) ==
  LET u     == Gd3Units
      nuls  == {i \in 1..Len(u) : u[i] = 0}
      Nth(j) == CHOOSE i \in nuls : Cardinality({h \in nuls : h <= i}) = j
      from  == IF k = 1 THEN 1 ELSE Nth(k - 1) + 1
      to    == IF Cardinality(nuls) >= k THEN Nth(k) - 1 ELSE Len(u)
  IN  IF Cardinality(nuls) < k - 1 THEN <<>> ELSE SubSeq(u, from, to)

\* C25: for a VGM buffer with the magic and a GD3 block, parseVGMTitle
\* returns the 11 fields, the k-th null-terminated UTF-16LE string of the
\* block in the k-th field and an empty field for a missing string; with a
\* GD3 offset of 0 it returns null.
C25_Gd3FieldsInOrder ==
  call = "parseVGMTitle" =>
    /\ HasGd3 =>
         result = [null         |-> FALSE,
                   trackNameEn  |-> KthString(1),
                   trackNameJp  |-> KthString(2),
                   gameNameEn   |-> KthString(3),
                   gameNameJp   |-> KthString(4),
                   systemNameEn |-> KthString(5),
                   systemNameJp |-> KthString(6),
                   authorNameEn |-> KthString(7),
                   authorNameJp |-> KthString(8),
                   releaseDate  |-> KthString(9),
                   vgmCreator   |-> KthString(10),
                   notes        |-> KthString(11)]
    /\ (HasVgmMagic /\ Gd3At = Gd3OffsetAt) => result.null

\* a block whose first, third and eleventh strings are not empty, and whose
\* second is, has been parsed
C25_Witness ==
  /\ call = "parseVGMTitle"
  /\ HasGd3
  /\ ~result.null
  /\ result.trackNameEn # <<>>
  /\ result.trackNameJp = <<>>
  /\ result.gameNameEn # <<>>
  /\ result.notes # <<>>

\* the entries of the archive that are audio for the reader that ran and can
\* be decoded, by what they hold
AudioKeys ==
  IF call = "processZipFile" THEN {"V1", "V0", "VN", "Z1"}
  ELSE {"S1", "S0", "SN"}

AudioEntries ==
  {i \in 1..Len(zipFiles) :
     /\ ~zipFiles[i].dir
     /\ ~zipFiles[i].corrupt
     /\ zipFiles[i].data \in AudioKeys}

\* the k-th of them in the order of the archive
KthAudio(k) ==
  CHOOSE i \in AudioEntries : Cardinality({j \in AudioEntries : j <= i}) = k

\* the name a track was made from
TrackSource(track) ==
  IF call = "loadZip" THEN track.path ELSE track.filename

\* the reader did not throw
Returned == call = "loadZip" \/ ~result.threw

\* C26: an archive with N decodable audio entries among others yields N
\* tracks, the k-th track made from the k-th audio entry, in loadZip,
\* processZipFile and processSPCZipFile.
C26_TracksAreAudioEntries ==
  (call \in {"loadZip", "processZipFile", "processSPCZipFile"} /\ Returned) =>
    /\ Len(result.tracks) = Cardinality(AudioEntries)
    /\ \A k \in 1..Len(result.tracks) :
         TrackSource(result.tracks[k]) = zipFiles[KthAudio(k)].name

\* a reader made two tracks of an archive whose second entry is not audio
C26_Witness ==
  /\ call \in {"loadZip", "processZipFile", "processSPCZipFile"}
  /\ Returned
  /\ Len(zipFiles) = 3
  /\ 2 \notin AudioEntries
  /\ Len(result.tracks) = 2

\* the .vgz entries of the archive that do not inflate
FailedInflates ==
  {i \in 1..Len(zipFiles) : ~zipFiles[i].dir /\ zipFiles[i].data = "ZBAD"}

\* no entry of the archive is damaged in the archive itself
Extractable == \A i \in 1..Len(zipFiles) : ~zipFiles[i].corrupt

\* C27: in processZipFile an entry whose decompression fails is skipped
\* alone: the reader returns, every other audio entry is in the track list
\* in order, and main writes the game, with these tracks, to the manifest.
C27_FailedInflateSkipped ==
  (FailedInflates # {} /\ Extractable) =>
    /\ call = "processZipFile" =>
         /\ ~result.threw
         /\ Len(result.tracks) = Cardinality(AudioEntries)
         /\ \A k \in 1..Len(result.tracks) :
              result.tracks[k].filename = zipFiles[KthAudio(k)].name
    /\ call = "mainVgm" =>
         /\ Len(result.games) = 1
         /\ result.games[1].trackCount =
              Cardinality({i \in 1..Len(zipFiles) :
                             zipFiles[i].data \in {"V1", "V0", "VN", "Z1"}})

\* processZipFile returned two tracks of an archive whose second entry did
\* not inflate
C27_Witness ==
  /\ call = "processZipFile"
  /\ Extractable
  /\ Len(zipFiles) = 3
  /\ 2 \in FailedInflates
  /\ ~result.threw
  /\ Len(result.tracks) = 2

\* the image entries of the archive
ImageEntries ==
  {i \in 1..Len(zipFiles) : ~zipFiles[i].dir /\ zipFiles[i].data = "IMG"}

\* C28: the cover image processZipFile / processSPCZipFile choose is the
\* first image entry of the archive; a later image entry does not replace it.
C28_FirstImageIsCover ==
  (/\ call \in {"processZipFile", "processSPCZipFile"}
   /\ ~result.threw
   /\ ImageEntries # {}) =>
    result.coverImage =
      zipFiles[CHOOSE i \in ImageEntries : \A j \in ImageEntries : i <= j].name

\* The metadata of an entry that the collection can use: the game, system
\* and author names of a VGM file with a GD3 block that names its game, the
\* game and artist of an SPC file that names its game.
Usable(key) ==
  IF call = "mainVgm" THEN key \in {"V1", "Z1"} ELSE key = "S1"

UsableEntries ==
  {i \in 1..Len(zipFiles) :
     /\ ~zipFiles[i].dir
     /\ zipFiles[i].data \in (IF call = "mainVgm"
                                THEN {"V1", "V0", "VN", "Z1"}
                                ELSE {"S1", "S0", "SN"})
     /\ Usable(zipFiles[i].data)}

FirstUsable == CHOOSE i \in UsableEntries : \A j \in UsableEntries : i <= j

\* the title, system and author the payload of an entry gives
Titled(key) ==
  CASE key = "V1" -> [title |-> <<71>>, system |-> <<89>>, author |-> <<65>>]
    [] key = "Z1" -> [title |-> <<72>>, system |-> <<90>>, author |-> <<66>>]
    [] OTHER -> [title |-> <<71>>, system |-> SuperNintendo, author |-> <<82>>]

\* C29: the title, system and author of the collection are those of the
\* first track with usable metadata; a track without usable metadata
\* neither seeds them nor keeps a later track from seeding them.
C29_FirstUsableSeeds ==
  (/\ call \in {"mainVgm", "mainSpc"}
   /\ Len(result.games) = 1
   /\ UsableEntries # {}) =>
    /\ result.games[1].title = Titled(zipFiles[FirstUsable].data).title
    /\ result.games[1].system = Titled(zipFiles[FirstUsable].data).system
    /\ result.games[1].author = Titled(zipFiles[FirstUsable].data).author

\* C30: every track loadZip makes has a length of at least 0, whatever the
\* 3-byte duration field and the 5-byte fade field of the file hold.
C30_LengthNotNegative ==
  call = "loadZip" => result.length >= 0

\* the payloads whose duration field, and those whose fade field, give no
\* number: no digits or no signature, and all NUL or no signature
UnknownDuration == {"S0", "SN"}
UnknownFade == {"S1", "SN"}

\* C31: a track whose SPC duration or fade is unknown gets 180 s and 10000 ms
\* wherever they are derived: in the catalogue of loadZip and in the tracks
\* processSPCZipFile writes to the manifest.
C31_SameFallbacksEverywhere ==
  (call \in {"loadZip", "processSPCZipFile"} /\ Returned) =>
    \A k \in 1..Len(result.tracks) :
      /\ zipFiles[KthAudio(k)].data \in UnknownDuration =>
           result.tracks[k].duration = DefaultDuration
      /\ zipFiles[KthAudio(k)].data \in UnknownFade =>
           result.tracks[k].fade = DefaultFade

\* C32: the URL written when track i of game g is played, parsed and
\* resolved when the page is opened, auto-plays track i of game g, also when
\* tracks share a name; and a query with a game wins over the hash.
C32_UrlDeterminesTrack ==
  call = "handleHashNavigation" =>
    /\ result.written =>
         /\ result.nav.played
         /\ result.nav.game = GameG
         /\ result.nav.trackIndex = result.index
    /\ (~result.written /\ location.search # <<>> /\ location.search[2] = 103) =>
         result.nav.game = GameG

\* C33: a callback of an Audio element that play() replaced or stop()
\* discarded leaves isPlaying, elapsed, currentTrack and trackList as they
\* are.
C33_StaleCallbacksInert ==
  [][(last'.op \in {"playRejected", "staleTimeUpdate"} /\ audioEvents' # audioEvents)
       => /\ isPlaying' = isPlaying
          /\ elapsed' = elapsed
          /\ currentTrack' = currentTrack
          /\ trackList' = trackList]_vars

\* C34: the length of every track of the track list is not known or is the
\* duration of that track's media.
C34_LengthOfSameTrack ==
  \A k \in 1..Len(trackList) :
    \/ trackList[k].length = 0
    \/ \E g \in Archives : \E i \in 1..ArchiveLen(g) :
         /\ EntryNames[g][i] = trackList[k].path
         /\ trackList[k].length = MediaDuration(g, i)

\* C35: the step that follows stop() starts playback only if it is a call
\* of play or togglePlayback; the callback of a play that nextTrack or
\* prevTrack deferred is not such a call.
C35_StopIsFinal ==
  [][(hook = "spc" /\ last.op = "stop" /\ last'.op \notin {"play", "toggle"})
       => (~isPlaying' /\ engineTrack' = engineTrack)]_vars

\* C36: in both hooks, while isPlaying is true currentTrack and trackInfo
\* are not null.
C36_PlayingHasTrack ==
  isPlaying => (currentTrack # NullTrack /\ trackInfo # "")

\* C37: in both hooks a currentTrack that is not null is the entry of
\* trackList at currentTrackIndex, and in useSPCPlayer the payload the
\* engine was initialised with is the entry of spcDataRef at that index and
\* is that track's.
C37_CurrentTrackIsListed ==
  currentTrack # NullTrack =>
    /\ currentTrackIndex \in 0..(Len(trackList) - 1)
    /\ trackList[currentTrackIndex + 1].path = currentTrack.path
    /\ hook = "spc" =>
         /\ currentTrackIndex < Len(spcDataRef)
         /\ engineTrack = spcDataRef[currentTrackIndex + 1].path
         /\ engineTrack = currentTrack.path

\* C38: once every run of the engine load effect was one of a render that
\* passed no waitFor, as the renders of App are, isReady becomes true.
C38_MountedBecomesReady ==
  (\A l \in Loaders : loaders[l].pc = "returned") ~> isReady

\* The request names a game the manifest does not list, or the manifest
\* could not be fetched or parsed.
NoSuchGame ==
  /\ result.gameId # <<>>
  /\ \/ result.manifest.outcome # "ok"
     \/ \A i \in 1..Len(result.manifest.games) :
          result.manifest.games[i].id # result.gameId

\* The text of the served document's title element.
ServedTitle ==
  LET at == {i \in 1..Len(result.body) : result.body[i].tag = "title"}
  IN  IF at = {} THEN <<>> ELSE result.body[CHOOSE i \in at : TRUE].content

\* The served title is a track's: "<track> - <game> | <site>".
TrackTitled ==
  /\ ~result.passed
  /\ result.body # result.page.html
  /\ \E site \in {VercelSite, PagesSite} :
       EndsWith(ServedTitle, escapeHtml(Bar \o site.brand))

\* The track the request names is one of the game it names.
TrackListed ==
  \E i \in 1..Len(result.manifest.games) :
    /\ result.manifest.games[i].id = result.gameId
    /\ FindIndex(result.manifest.games[i].tracks, result.trackName) # -1

\* C39: the middleware passes a request without a game on unmodified; it
\* serves the fetched document as it is when the game is not in the
\* manifest or the manifest cannot be fetched or parsed; and it serves a
\* track's title only if the track is one of the game.
C39_MiddlewareKeepsPage ==
  call \in {"middleware", "onRequest"} =>
    /\ result.gameId = <<>> => (result.passed /\ result.body = result.page.html)
    /\ NoSuchGame => result.body = result.page.html
    /\ TrackTitled => (result.trackName # <<>> /\ TrackListed)

C39_Witness ==
  /\ call = "middleware"
  /\ result.gameId = GameX
  /\ result.manifest.outcome = "ok"
  /\ result.page.html = IndexHtml
  /\ ~result.passed
  /\ result.body = IndexHtml

\* C10: stop() leaves the callback disconnected, no fade or auto-advance
\* timer pending, the decode session released, isPlaying false, and elapsed,
\* currentTrack and trackInfo reset.
C10_StopReleasesAll ==
  (last.op = "stop") =>
    /\ LiveNodes = 0
    /\ SessionTimers(timers) = {}
    /\ engineTrack = "" /\ stackAllocs = 0
    /\ ~isPlaying /\ elapsed = 0
    /\ currentTrack = NullTrack /\ trackInfo = ""

====
